---------------------------- MODULE Spec2Model ----------------------------
(***************************************************************************)
(* QuickEnglishLevelBot: the session-scoped assessment engine.             *)
(*                                                                         *)
(* The bot is a single-threaded, event-driven node process.  Every inbound *)
(* event starts an async handler; a handler runs synchronously up to its   *)
(* next `await` (a transport call), is suspended there, and resumes when   *)
(* the transport call settles.  Handlers of the same or of different users *)
(* interleave exactly at those awaits.  A frame of `frames` is one running *)
(* handler, its pc the await it is suspended on.                           *)
(*                                                                         *)
(* Sessions live in a node-cache with useClones:false, so the cache holds  *)
(* references: `heap` holds the answers arrays, a session names its array  *)
(* by id, and a copy made by updateSession shares the array of the         *)
(* session it was copied from.                                             *)
(***************************************************************************)
EXTENDS Integers, Sequences, FiniteSets, TLC

(* ----------------------------- bounds --------------------------------- *)

\* Handlers that may be in flight at once.
MaxFrames == 2
\* The inactivity timeout (stdTTL), in clock ticks.
TTL == 2
\* test.totalQuestions of data/config.json, scaled down.
TotalQuestions == 4
\* Option indices an answer button may carry: 0..MaxOpt.
MaxOpt == 0
\* Forwarding calls that may be unsettled at once.
MaxFwd == 1

UserIds == {1, 2}
FrameIds == 1..MaxFrames
\* One array for each cached session and one for each suspended handler.
ArrIds == 1..(Cardinality(UserIds) + MaxFrames)

(* ------------------------------ the state ----------------------------- *)

VARIABLES
  cache,     \* SessionService.cache: userId -> session, NoSession when absent
  age,       \* ticks since the user's key was last set
  heap,      \* the answers arrays, by id
  frames,    \* the handlers in flight
  fwd,       \* forwardResults calls that have not settled
  enabled,   \* MonitoringService.enabled
  active,    \* the users that send events
  results,   \* per array: the completeTest runs that assessed and forwarded it
  dbl,       \* the double submission under observation
  lapsed,    \* users whose session the TTL removed mid-quiz, up to the
             \* first message they are sent and the first session they get
  said,      \* the last message a handler issued in the step taken: msg, to
             \* userId, by the first run of the handler of a kind event
  call,      \* the service call under observation, with what it returned
  repository \* QuestionService.questions

vars == <<cache, age, heap, frames, fwd, enabled, active, results, dbl,
          lapsed, said, call, repository>>

(* ------------------------- the question bank -------------------------- *)

\* weight 0 stands for a question without the optional weight field.
Q(id, correct, level, category, weight) ==
  [id |-> id, correct |-> correct, level |-> level,
   category |-> category, weight |-> weight]

Levels == <<"A1", "A2", "B1", "B2">>

\* data/questions.json, scaled down: an A1 question with a weight and an A2
\* question without one.
Bank ==
  << Q(1, 0, "A1", "grammar", 1),
     Q(2, 1, "A2", "vocabulary", 0) >>

BankIds == {Bank[i].id : i \in 1..Len(Bank)}

\* Array.prototype.filter over a sequence, keeping order.
RECURSIVE Filter(_, _)
Filter(s, level) ==
  IF s = <<>> THEN <<>>
  ELSE IF Head(s).level = level
       THEN <<Head(s)>> \o Filter(Tail(s), level)
       ELSE Filter(Tail(s), level)

getQuestionsByLevel(bank, level) == Filter(bank, level)

\* A faulty swap, for comparison: shuffled[i] is overwritten and not kept.
SwapLosing(shuffled, i, j) == [shuffled EXCEPT ![i] = shuffled[j]]

\* [shuffled[i], shuffled[j]] = [shuffled[j], shuffled[i]]
Swap(shuffled, i, j) ==
  [shuffled EXCEPT ![i] = shuffled[j], ![j] = shuffled[i]]

\* The loop of shuffleArray from position i down (positions count from 1):
\* every j that Math.floor(Math.random() * (i + 1)) may be, at every turn.
RECURSIVE FisherYates(_, _)
FisherYates(shuffled, i) ==
  IF i < 2 THEN {shuffled}
  ELSE UNION {FisherYates(Swap(shuffled, i, j), i - 1) : j \in 1..i}

\* Every outcome of the Fisher-Yates shuffle of a copy of s.
shuffleArray(s) == FisherYates(s, Len(s))

Min(a, b) == IF a < b THEN a ELSE b

\* A faulty slice, for comparison: the whole pool is taken.
SliceWhole(s, count) == s

\* slice(0, count)
Slice(s, count) == SubSeq(s, 1, Min(count, Len(s)))

\* The outcomes of drawing per level, for a table of <<level, count>> pairs.
RECURSIVE DrawLevels(_, _)
DrawLevels(bank, table) ==
  IF table = <<>> THEN {<<>>}
  ELSE LET pool == getQuestionsByLevel(bank, Head(table)[1])
           firsts == {Slice(p, Head(table)[2]) : p \in shuffleArray(pool)}
       IN {a \o b : a \in firsts, b \in DrawLevels(bank, Tail(table))}

NoQuotas == [given |-> FALSE, table |-> <<>>]

\* selectQuestionsForTest: every sequence the call may return.
selectQuestionsForTest(bank, totalQuestions, questionsPerLevel) ==
  LET perLevel == totalQuestions \div Len(Levels)
      table == IF questionsPerLevel.given
               THEN questionsPerLevel.table
               ELSE [i \in 1..Len(Levels) |-> <<Levels[i], perLevel>>]
  IN UNION {shuffleArray(sel) : sel \in DrawLevels(bank, table)}

\* getQuestionById: the first question with that id, or NoQuestion.
NoQuestion == Q(0, 0, "none", "none", 0)

RECURSIVE FindById(_, _)
FindById(s, id) ==
  IF s = <<>> THEN NoQuestion
  ELSE IF Head(s).id = id THEN Head(s) ELSE FindById(Tail(s), id)

getQuestionById(bank, id) == FindById(bank, id)

\* checkAnswer: found = FALSE stands for the thrown "not found" error.
checkAnswer(bank, questionId, selectedOption) ==
  LET question == getQuestionById(bank, questionId)
  IN IF question = NoQuestion
     THEN [found |-> FALSE, isCorrect |-> FALSE, weight |-> 0]
     ELSE [found |-> TRUE,
           isCorrect |-> (question.correct = selectedOption),
           weight |-> IF question.weight # 0 THEN question.weight ELSE 1]


(* ------------------------ AssessmentService --------------------------- *)

Categories == {"vocabulary", "grammar"}
LevelSet == {Levels[i] : i \in 1..Len(Levels)}

\* getDefaultConfig().scoring.weights
LevelWeight(level) ==
  CASE level = "A1" -> 1
    [] level = "A2" -> 2
    [] level = "B1" -> 3
    [] level = "B2" -> 4
    [] OTHER -> 0

\* getDefaultConfig().scoring.levelThresholds[..].max
ThresholdA1Max == 25
ThresholdA2Max == 50
ThresholdB1Max == 75

\* question.weight || config.scoring.weights[question.level] || 1
ResolveWeight(question) ==
  IF question.weight # 0 THEN question.weight
  ELSE IF LevelWeight(question.level) # 0 THEN LevelWeight(question.level)
  ELSE 1

(* Math.round((value / total) * 100) is computed on Numbers, IEEE 754      *)
(* binary64: the division and the multiplication each round their exact   *)
(* result to 53 significant bits, to nearest and on a tie to even, and     *)
(* Math.round takes the double it is given to the nearest integer, a half  *)
(* upwards.  A double is [sig, k]: sig the significand as five digits of   *)
(* base 2^13, most significant first (the top digit is not reduced), and   *)
(* its value is sig * 2^(-52 - k).  The digits stay inside TLC's integers  *)
(* for 0 < value <= total < 2^17.                                          *)
Radix == 8192

\* The element of a set of one element; a value bound as {e : v \in {d}}
\* binds v to d once.
The(S) == CHOOSE v \in S : TRUE

RECURSIVE Pow2(_)
Pow2(n) == IF n = 0 THEN 1 ELSE 2 * Pow2(n - 1)

\* The digits with every carry moved up.
RECURSIVE Carried(_)
Carried(digits) ==
  The({IF Len(ds) <= 1 THEN ds
       ELSE Carried([SubSeq(ds, 1, Len(ds) - 1) EXCEPT
                       ![Len(ds) - 1] = @ + (ds[Len(ds)] \div Radix)])
              \o <<ds[Len(ds)] % Radix>> : ds \in {digits}})

\* n * 2^k, for the least k that brings it to d or above.
RECURSIVE Normalise(_, _, _)
Normalise(n, d, k) ==
  IF n >= d THEN [n |-> n, k |-> k] ELSE Normalise(2 * n, d, k + 1)

\* n digits of the expansion of r / d, r < d, and the remainder left.
RECURSIVE DivDigits(_, _, _)
DivDigits(r, d, n) ==
  IF n = 0 THEN [digits |-> <<>>, rem |-> r]
  ELSE The({[digits |-> <<(r * Radix) \div d>> \o rest.digits,
             rem |-> rest.rem] :
            rest \in {DivDigits((r * Radix) % d, d, n - 1)}})

\* The significand sig and the remainder rem of its division by total,
\* rounded to nearest, a tie to even.
RoundedQuotient(sig, rem, total) ==
  LET up == 2 * rem > total \/ (2 * rem = total /\ sig[5] % 2 = 1)
  IN Carried([sig EXCEPT ![5] = @ + (IF up THEN 1 ELSE 0)])

\* value / total
Quotient(value, total) ==
  The({The({[sig |-> RoundedQuotient(<<1>> \o q.digits, q.rem, total),
             k |-> nk.k] :
            q \in {DivDigits(nk.n - total, total, 4)}}) :
       nk \in {Normalise(value, total, 0)}})

\* The exact product p, of 59 or 60 bits, rounded to the 53 bits kept.
RoundedProduct(p) ==
  LET unit == IF p[1] >= 128 THEN 128 ELSE 64
      low == p[5] % unit
      up == 2 * low > unit \/ (2 * low = unit /\ (p[5] \div unit) % 2 = 1)
  IN Carried([p EXCEPT ![5] = @ - low + (IF up THEN unit ELSE 0)])

\* x * 100
TimesHundred(x) ==
  The({The({[sig |-> RoundedProduct(p), k |-> y.k] :
            p \in {Carried([i \in 1..5 |-> y.sig[i] * 100])}}) :
       y \in {x}})

\* Math.round(x): the integer part, and one more when the bit of weight
\* one half is set.
MathRound(x) ==
  The({IF y.k = 0
       THEN y.sig[1] + (y.sig[2] \div (Radix \div 2))
       ELSE (y.sig[1] \div Pow2(y.k)) + ((y.sig[1] \div Pow2(y.k - 1)) % 2) :
       y \in {x}})

\* Math.round((value / total) * 100), for 0 <= value <= total, total > 0.
RoundPercent(value, total) ==
  The({IF v = 0 THEN 0 ELSE MathRound(TimesHundred(Quotient(v, t))) :
       v \in {value}, t \in {total}})

\* calculatePercentage of utils/helpers.js
calculatePercentage(value, total) ==
  IF total = 0 THEN 0 ELSE RoundPercent(value, total)

\* A faulty determineLevel, for comparison: the upper bounds are exclusive.
determineLevelExclusive(percentage) ==
  IF percentage < ThresholdA1Max THEN "A1"
  ELSE IF percentage < ThresholdA2Max THEN "A2"
  ELSE IF percentage < ThresholdB1Max THEN "B1"
  ELSE "B2"

determineLevel(percentage) ==
  IF percentage <= ThresholdA1Max THEN "A1"
  ELSE IF percentage <= ThresholdA2Max THEN "A2"
  ELSE IF percentage <= ThresholdB1Max THEN "B1"
  ELSE "B2"

\* A faulty loop, for comparison: the weight of every matched answer is
\* earned, correct or not.
RECURSIVE AssessLoopEarningAll(_, _, _)
AssessLoopEarningAll(answers, questions, acc) ==
  IF answers = <<>> THEN acc
  ELSE
    LET question == FindById(questions, Head(answers).questionId)
        weight == ResolveWeight(question)
    IN AssessLoopEarningAll(Tail(answers), questions,
         IF question = NoQuestion THEN acc
         ELSE [acc EXCEPT !.totalWeight = @ + weight,
                          !.earnedWeight = @ + weight])

\* A faulty loop, for comparison: an answer whose question is not found
\* counts with weight 1.
RECURSIVE AssessLoopDefaulting(_, _, _)
AssessLoopDefaulting(answers, questions, acc) ==
  IF answers = <<>> THEN acc
  ELSE
    LET question == FindById(questions, Head(answers).questionId)
        weight == ResolveWeight(question)
        hit == IF Head(answers).isCorrect THEN 1 ELSE 0
    IN AssessLoopDefaulting(Tail(answers), questions,
         [acc EXCEPT !.totalWeight = @ + weight,
                     !.earnedWeight = @ + hit * weight])

\* The running totals of the loop over the answers, from the state acc.
RECURSIVE AssessLoop(_, _, _)
AssessLoop(answers, questions, acc) ==
  IF answers = <<>> THEN acc
  ELSE
    LET answer == Head(answers)
        question == FindById(questions, answer.questionId)
        weight == ResolveWeight(question)
        hit == IF answer.isCorrect THEN 1 ELSE 0
        next ==
          IF question = NoQuestion THEN acc
          ELSE [totalWeight |-> acc.totalWeight + weight,
                earnedWeight |-> acc.earnedWeight + hit * weight,
                categoryStats |->
                  IF question.category \in Categories
                  THEN [acc.categoryStats EXCEPT
                          ![question.category].total = @ + 1,
                          ![question.category].correct = @ + hit]
                  ELSE acc.categoryStats,
                levelStats |->
                  IF question.level \in LevelSet
                  THEN [acc.levelStats EXCEPT
                          ![question.level].total = @ + 1,
                          ![question.level].correct = @ + hit]
                  ELSE acc.levelStats]
    IN AssessLoop(Tail(answers), questions, next)

calculateAssessment(answers, questions) ==
  LET zero == [correct |-> 0, total |-> 0]
      acc == AssessLoop(answers, questions,
               [totalWeight |-> 0, earnedWeight |-> 0,
                categoryStats |-> [c \in Categories |-> zero],
                levelStats |-> [l \in LevelSet |-> zero]])
      percentageScore ==
        IF acc.totalWeight > 0
        THEN RoundPercent(acc.earnedWeight, acc.totalWeight)
        ELSE 0
  IN [level |-> determineLevel(percentageScore),
      percentageScore |-> percentageScore,
      totalQuestions |-> Len(answers),
      correctAnswers |-> Len(SelectSeq(answers, LAMBDA a : a.isCorrect)),
      categoryStats |-> acc.categoryStats,
      levelStats |-> acc.levelStats,
      earnedWeight |-> acc.earnedWeight,
      totalWeight |-> acc.totalWeight]

NoAssessment == calculateAssessment(<<>>, <<>>)

(* -------------------------- SessionService ---------------------------- *)

(* A store value st is [cache, age, heap, live, lapsed]: the node-cache's   *)
(* entries, the ticks since each key was last set, the answers arrays, the *)
(* ids of the arrays something still references, and the users whose       *)
(* session the TTL removed mid-quiz (see lapsed).                          *)

NoSession ==
  [state |-> "absent", username |-> "", questions |-> <<>>,
   currentQuestion |-> 0, score |-> 0, isComplete |-> FALSE, answers |-> 0]

\* k of N questions answered, 0 < k < N.
MidQuiz(session) ==
  /\ session.state = "in_progress"
  /\ 0 < session.currentQuestion
  /\ session.currentQuestion < Len(session.questions)

\* A faulty cache.set, for comparison: the key's TTL keeps running.
CacheSetKeepTTL(st, userId, session) ==
  [st EXCEPT !.cache[userId] = session, !.lapsed = @ \ {userId}]

\* cache.set(key, value): stores the reference and restarts the key's TTL.
CacheSet(st, userId, session) ==
  [st EXCEPT !.cache[userId] = session, !.age[userId] = 0,
             !.lapsed = @ \ {userId}]

\* cache.del(key)
CacheDel(st, userId) ==
  [st EXCEPT !.cache[userId] = NoSession, !.age[userId] = 0]

\* The clock advances by one tick: an entry whose TTL has run out is gone
\* for every later get, has, set and del (stdTTL, checkperiod).
ClockTick(st) ==
  LET aged == [u \in UserIds |->
                 IF st.cache[u] = NoSession THEN 0 ELSE st.age[u] + 1]
  IN [st EXCEPT
        !.cache = [u \in UserIds |->
                     IF aged[u] >= TTL THEN NoSession ELSE st.cache[u]],
        !.age = [u \in UserIds |-> IF aged[u] >= TTL THEN 0 ELSE aged[u]],
        !.lapsed = @ \cup {u \in UserIds :
                             aged[u] >= TTL /\ MidQuiz(st.cache[u])}]

\* The clock as the next cache read of a synchronous run sees it: the run
\* reads Date.now() afresh at every get, so the TTL may run out between two
\* reads of one run.
Adv(st, crossed) == IF crossed THEN ClockTick(st) ELSE st

\* A new array: an id nothing references.
NewArr(st) ==
  CHOOSE a \in ArrIds \ st.live : \A b \in ArrIds \ st.live : a <= b

\* A faulty createSession, for comparison: a session that exists is kept.
createSessionKeeping(st, userId, username) ==
  LET a == NewArr(st)
      session == [state |-> "ready", username |-> username,
                  questions |-> <<>>, currentQuestion |-> 0, score |-> 0,
                  isComplete |-> FALSE, answers |-> a]
  IN IF st.cache[userId] # NoSession THEN st
     ELSE [st EXCEPT !.heap[a] = <<>>, !.live = @ \cup {a},
                     !.cache[userId] = session, !.age[userId] = 0,
                     !.lapsed = @ \ {userId}]

createSession(st, userId, username) ==
  LET a == NewArr(st)
      session == [state |-> "ready", username |-> username,
                  questions |-> <<>>, currentQuestion |-> 0, score |-> 0,
                  isComplete |-> FALSE, answers |-> a]
  IN CacheSet([st EXCEPT !.heap[a] = <<>>, !.live = @ \cup {a}],
              userId, session)

getSession(st, userId) == st.cache[userId]

hasSession(st, userId) == st.cache[userId] # NoSession

\* { ...session, ...updates }: a new object sharing the answers array.
updateSession(st, userId, updates) ==
  LET session == getSession(st, userId)
  IN IF session = NoSession THEN st
     ELSE CacheSet(st, userId,
            [f \in DOMAIN session |->
               IF f \in DOMAIN updates THEN updates[f] ELSE session[f]])

\* A faulty recordAnswer, for comparison: the record is pushed and the
\* score kept, and currentQuestion stays where it is.
recordAnswerSameIndex(st, userId, answer) ==
  LET session == st.cache[userId]
      answerRecord == [questionId |-> answer.questionId,
                       selectedOption |-> answer.selectedOption,
                       isCorrect |-> answer.isCorrect]
  IN IF session = NoSession THEN st
     ELSE [st EXCEPT
             !.heap[session.answers] = Append(@, answerRecord),
             !.age[userId] = 0,
             !.cache[userId].score =
                IF answer.isCorrect
                THEN @ + (IF answer.weight # 0 THEN answer.weight ELSE 1)
                ELSE @]

\* A faulty recordAnswer, for comparison: currentQuestion advances and no
\* record is pushed.
recordAnswerNoAppend(st, userId, answer) ==
  LET session == st.cache[userId]
  IN IF session = NoSession THEN st
     ELSE [st EXCEPT !.age[userId] = 0,
                     !.cache[userId].currentQuestion = @ + 1]

\* A faulty recordAnswer, for comparison: the weight of a wrong answer is
\* added to the score as well.
recordAnswerScoringAll(st, userId, answer) ==
  LET session == st.cache[userId]
      answerRecord == [questionId |-> answer.questionId,
                       selectedOption |-> answer.selectedOption,
                       isCorrect |-> answer.isCorrect]
  IN IF session = NoSession THEN st
     ELSE [st EXCEPT
             !.heap[session.answers] = Append(@, answerRecord),
             !.age[userId] = 0,
             !.cache[userId].currentQuestion = @ + 1,
             !.cache[userId].score =
                @ + (IF answer.weight # 0 THEN answer.weight ELSE 1)]

\* A faulty recordAnswer, for comparison: the record takes the place of
\* the answers recorded before.
recordAnswerOverwriting(st, userId, answer) ==
  LET session == getSession(st, userId)
      answerRecord == [questionId |-> answer.questionId,
                       selectedOption |-> answer.selectedOption,
                       isCorrect |-> answer.isCorrect]
  IN IF session = NoSession THEN st
     ELSE CacheSet(
            [st EXCEPT !.heap[session.answers] = <<answerRecord>>],
            userId,
            [session EXCEPT
               !.currentQuestion = @ + 1,
               !.score = IF answer.isCorrect
                         THEN @ + (IF answer.weight # 0 THEN answer.weight ELSE 1)
                         ELSE @])

recordAnswer(st, userId, answer) ==
  LET session == getSession(st, userId)
      answerRecord == [questionId |-> answer.questionId,
                       selectedOption |-> answer.selectedOption,
                       isCorrect |-> answer.isCorrect]
  IN IF session = NoSession THEN st
     ELSE CacheSet(
            [st EXCEPT !.heap[session.answers] = Append(@, answerRecord)],
            userId,
            [session EXCEPT
               !.currentQuestion = @ + 1,
               !.score = IF answer.isCorrect
                         THEN @ + (IF answer.weight # 0 THEN answer.weight ELSE 1)
                         ELSE @])

setQuestions(st, userId, questions) ==
  updateSession(st, userId, [questions |-> questions])

\* A faulty isTestComplete, for comparison: a session without questions is
\* not complete.
isTestCompleteNonEmpty(st, userId) ==
  /\ st.cache[userId] # NoSession
  /\ st.cache[userId].questions # <<>>
  /\ st.cache[userId].currentQuestion >= Len(st.cache[userId].questions)

isTestComplete(st, userId) ==
  LET session == getSession(st, userId)
  IN IF session = NoSession THEN FALSE
     ELSE session.currentQuestion >= Len(session.questions)

\* A faulty completeSession, for comparison: the completed session is
\* removed from the cache.
completeSessionClearing(st, userId) ==
  [st EXCEPT !.cache[userId] = NoSession, !.age[userId] = 0]

completeSession(st, userId) ==
  updateSession(st, userId, [isComplete |-> TRUE, state |-> "completed"])

\* A faulty clearSession, for comparison: the cache is flushed.
clearSessionAll(st, userId) ==
  [st EXCEPT !.cache = [u \in UserIds |-> NoSession],
             !.age = [u \in UserIds |-> 0]]

clearSession(st, userId) == CacheDel(st, userId)

resetSession(st, userId, username) ==
  createSession(clearSession(st, userId), userId, username)


(* ------------------------------ handlers ------------------------------ *)

(* A frame is one running handler.  pc names the await it is suspended on: *)
(*   cb_ack           answerCallbackQuery (handleCallback)                 *)
(*   st_instructions  deleteMessage, then the instructions message         *)
(*   ans_feedback     deleteMessage, then the feedback message             *)
(*   ct_completion    the completion message (completeTest)                *)
(*   ct_result        the result message (completeTest)                    *)
(*   ct_offer         the "take the test again" message (completeTest)     *)
(* A failed deleteMessage is swallowed and no code runs between it and the *)
(* send that follows, so the two awaits are one suspension.  A handler     *)
(* that awaits its last message (pc send), or the message of its catch     *)
(* block (pc error), runs no more code that reads or writes a session: it  *)
(* leaves `frames` in the step that issues the message, and `said` holds   *)
(* that message for the step.                                              *)
Idle ==
  [pc |-> "idle", kind |-> "none", userId |-> 0, questionId |-> 0,
   selectedOption |-> 0, msg |-> "none", session |-> NoSession,
   assessment |-> NoAssessment, twin |-> FALSE]

NewFrame(kind, userId, questionId, selectedOption) ==
  [Idle EXCEPT !.pc = "cb_ack", !.kind = kind, !.userId = userId,
               !.questionId = questionId, !.selectedOption = selectedOption]

\* The handler is suspended at pc; the event's fields are read by the first
\* synchronous run only and are dropped with it.
At(f, pc) ==
  [f EXCEPT !.pc = pc, !.kind = "none", !.questionId = 0,
            !.selectedOption = 0]

\* The handler awaits the send of msg and returns after it.
Send(f, msg) ==
  [Idle EXCEPT !.pc = "send", !.kind = f.kind, !.userId = f.userId,
               !.msg = msg]

\* An exception reached the catch block, which awaits the error message.
Caught(f) ==
  [Idle EXCEPT !.pc = "error", !.userId = f.userId, !.msg = "error_occurred"]

\* The cache reads of one synchronous run are numbered from 1; x is the read
\* before which the clock ticks, 0 when it does not tick within the run.
ReadPoints == 0..4

\* How a transport call settles.
Outcomes == {"ok", "failed"}

\* The session object that completeTest read at line 231, as the rest of
\* completeTest sees it: it reads username, questions and answers only, and
\* no code writes to the object once completeSession has cached a copy.
Held(session) ==
  [NoSession EXCEPT !.state = "held", !.username = session.username,
                    !.questions = session.questions,
                    !.answers = session.answers]

\* completeTest up to its first await (lines 231-244); n cache reads were
\* made by the run before the call.
completeTest(st0, f, x, n) ==
  LET st1 == Adv(st0, x = n + 1)
      session == getSession(st1, f.userId)
      st2 == Adv(st1, x = n + 2)
  IN IF session = NoSession
     THEN [st |-> st1, f |-> Send(f, "results_unavailable")]
     ELSE [st |-> completeSession(st2, f.userId),
           f |-> [At(f, "ct_completion") EXCEPT !.session = Held(session)]]

\* completeTest, lines 246-251: the assessment of the session object that
\* line 231 read, on the answers its array holds now.
completeTestAssess(st, f) ==
  [st |-> st,
   f |-> [f EXCEPT !.pc = "ct_result",
                   !.assessment = calculateAssessment(
                      st.heap[f.session.answers], f.session.questions)]]

\* A faulty completeTest, for comparison: line 262 is missing and the
\* completed session stays cached.
completeTestKeep(st, f) ==
  [st |-> st, f |-> [f EXCEPT !.pc = "ct_offer"]]

\* completeTest, lines 253-265: the forwarding call is made and not awaited,
\* then the session is cleared.
completeTestClear(st, f) ==
  [st |-> clearSession(st, f.userId), f |-> [f EXCEPT !.pc = "ct_offer"]]

\* completeTest, line 277.
completeTestRearm(st, f) ==
  [st |-> createSession(st, f.userId, f.session.username), f |-> Idle]

\* sendQuestion up to its await (lines 183-224).
sendQuestion(st0, f, x, n) ==
  LET st1 == Adv(st0, x = n + 1)
      session == getSession(st1, f.userId)
  IN IF session = NoSession
     THEN [st |-> st1, f |-> Send(f, "session_expired")]
     ELSE IF session.currentQuestion >= Len(session.questions)
     THEN completeTest(st1, f, x, n + 1)
     ELSE [st |-> st1, f |-> Send(f, "question")]

\* A faulty handleStartTest, for comparison: a user whose session timed out
\* mid-quiz gets a message of their own.
handleStartTestLapsed(st0, f, x, questions) ==
  LET st1 == Adv(st0, x = 1)
      session == getSession(st1, f.userId)
      st2 == setQuestions(Adv(st1, x = 2), f.userId, questions)
      st3 == updateSession(Adv(st2, x = 3), f.userId,
                           [state |-> "in_progress"])
  IN IF session = NoSession /\ f.userId \in st1.lapsed
     THEN [st |-> st1, f |-> Send(f, "session_timed_out")]
     ELSE IF session = NoSession
     THEN [st |-> st1, f |-> Send(f, "session_expired")]
     ELSE [st |-> st3, f |-> At(f, "st_instructions")]

\* handleStartTest up to its first await (lines 63-83).
handleStartTest(st0, f, x, questions) ==
  LET st1 == Adv(st0, x = 1)
      session == getSession(st1, f.userId)
      st2 == setQuestions(Adv(st1, x = 2), f.userId, questions)
      st3 == updateSession(Adv(st2, x = 3), f.userId,
                           [state |-> "in_progress"])
  IN IF session = NoSession
     THEN [st |-> st1, f |-> Send(f, "session_expired")]
     ELSE [st |-> st3, f |-> At(f, "st_instructions")]

\* A faulty lookup, for comparison: the first question of the test is taken
\* for the current one.
FirstQuestion(session) ==
  IF session.questions # <<>> THEN session.questions[1] ELSE NoQuestion

\* session.questions[session.currentQuestion]
CurrentQuestion(session) ==
  IF session.currentQuestion < Len(session.questions)
  THEN session.questions[session.currentQuestion + 1]
  ELSE NoQuestion

\* A faulty handleAnswer, for comparison: an answer that finds no session
\* makes one.
handleAnswerRearming(st0, f, x) ==
  LET st1 == Adv(st0, x = 1)
      session == getSession(st1, f.userId)
      currentQuestion == CurrentQuestion(session)
      result == checkAnswer(repository, f.questionId, f.selectedOption)
      st2 == Adv(st1, x = 2)
  IN IF session = NoSession
     THEN [st |-> createSession(st1, f.userId, ""),
           f |-> Send(f, "session_expired")]
     ELSE IF session.state # "in_progress"
     THEN [st |-> st1, f |-> Send(f, "no_active_test")]
     ELSE IF currentQuestion = NoQuestion \/ currentQuestion.id # f.questionId
     THEN [st |-> st1, f |-> Send(f, "invalid_answer")]
     ELSE IF ~result.found
     THEN [st |-> st1, f |-> Caught(f)]
     ELSE [st |-> recordAnswer(st2, f.userId,
                    [questionId |-> f.questionId,
                     selectedOption |-> f.selectedOption,
                     isCorrect |-> result.isCorrect,
                     weight |-> result.weight]),
           f |-> At(f, "ans_feedback")]

\* A faulty handleAnswer, for comparison: the answer is recorded before it
\* is checked.
handleAnswerRecordingFirst(st0, f, x) ==
  LET st1 == Adv(st0, x = 1)
      session == getSession(st1, f.userId)
      currentQuestion == CurrentQuestion(session)
      result == checkAnswer(repository, f.questionId, f.selectedOption)
      st2 == Adv(st1, x = 2)
      recorded == recordAnswer(st2, f.userId,
                    [questionId |-> f.questionId,
                     selectedOption |-> f.selectedOption,
                     isCorrect |-> result.isCorrect,
                     weight |-> result.weight])
  IN IF session = NoSession
     THEN [st |-> st1, f |-> Send(f, "session_expired")]
     ELSE IF session.state # "in_progress"
     THEN [st |-> st1, f |-> Send(f, "no_active_test")]
     ELSE IF currentQuestion = NoQuestion \/ currentQuestion.id # f.questionId
     THEN [st |-> st1, f |-> Send(f, "invalid_answer")]
     ELSE IF ~result.found
     THEN [st |-> recorded, f |-> Caught(f)]
     ELSE [st |-> recorded, f |-> At(f, "ans_feedback")]

\* A faulty handleAnswer, for comparison: the button pressed is not
\* compared with the current question.
handleAnswerUnchecked(st0, f, x) ==
  LET st1 == Adv(st0, x = 1)
      session == getSession(st1, f.userId)
      result == checkAnswer(repository, f.questionId, f.selectedOption)
      st2 == Adv(st1, x = 2)
  IN IF session = NoSession
     THEN [st |-> st1, f |-> Send(f, "session_expired")]
     ELSE IF session.state # "in_progress"
     THEN [st |-> st1, f |-> Send(f, "no_active_test")]
     ELSE IF ~result.found
     THEN [st |-> st1, f |-> Caught(f)]
     ELSE [st |-> recordAnswer(st2, f.userId,
                    [questionId |-> f.questionId,
                     selectedOption |-> f.selectedOption,
                     isCorrect |-> result.isCorrect,
                     weight |-> result.weight]),
           f |-> At(f, "ans_feedback")]

\* handleAnswer up to its first await (lines 118-157).
handleAnswer(st0, f, x) ==
  LET st1 == Adv(st0, x = 1)
      session == getSession(st1, f.userId)
      currentQuestion == CurrentQuestion(session)
      result == checkAnswer(repository, f.questionId, f.selectedOption)
      st2 == Adv(st1, x = 2)
  IN IF session = NoSession
     THEN [st |-> st1, f |-> Send(f, "session_expired")]
     ELSE IF session.state # "in_progress"
     THEN [st |-> st1, f |-> Send(f, "no_active_test")]
     ELSE IF currentQuestion = NoQuestion \/ currentQuestion.id # f.questionId
     THEN [st |-> st1, f |-> Send(f, "invalid_answer")]
     ELSE IF ~result.found
     THEN [st |-> st1, f |-> Caught(f)]
     ELSE [st |-> recordAnswer(st2, f.userId,
                    [questionId |-> f.questionId,
                     selectedOption |-> f.selectedOption,
                     isCorrect |-> result.isCorrect,
                     weight |-> result.weight]),
           f |-> At(f, "ans_feedback")]

\* handleAnswer after the feedback message (lines 170-177).
handleAnswerNext(st0, f, x) ==
  LET st1 == Adv(st0, x = 1)
      st2 == Adv(st1, x = 2)
  IN IF isTestComplete(st2, f.userId)
     THEN completeTest(st2, f, x, 2)
     ELSE sendQuestion(st2, f, x, 2)

\* A faulty handleStart, for comparison: a session is created whatever the
\* state of the one the user has.
handleStartAlways(st0, f, x, username) ==
  LET st1 == Adv(st0, x = 1)
  IN [st |-> createSession(st1, f.userId, username),
      f |-> Send(f, "welcome")]

\* handleStart up to its await (lines 36-61); a null session after a true
\* hasSession throws on session.state and lands in the catch block.
handleStart(st0, f, x, username) ==
  LET st1 == Adv(st0, x = 1)
      st2 == Adv(st1, x = 2)
      session == getSession(st2, f.userId)
  IN IF hasSession(st1, f.userId) /\ session = NoSession
     THEN [st |-> st2, f |-> Caught(f)]
     ELSE IF hasSession(st1, f.userId) /\ session.state = "in_progress"
     THEN [st |-> st2, f |-> Send(f, "active_test")]
     ELSE [st |-> createSession(IF hasSession(st1, f.userId) THEN st2 ELSE st1,
                                f.userId, username),
           f |-> Send(f, "welcome")]

\* handleRestart up to its await (lines 80-92).
handleRestart(st, f, username) ==
  [st |-> resetSession(st, f.userId, username), f |-> Send(f, "restart")]

\* handleCancel up to its await (lines 110-121).
handleCancel(st, f) ==
  [st |-> clearSession(st, f.userId), f |-> Send(f, "cancel")]

\* msg.from.username; the empty string stands for a user without one.
UsernameOf(userId) == IF userId = 1 THEN "alice" ELSE ""


NoMsg == [userId |-> 0, msg |-> "none", kind |-> "none"]

NoCall == [op |-> "none"]

\* The arrays that a cached session or a suspended completeTest references.
Live(c, fr) ==
  ({c[u].answers : u \in UserIds} \cup {fr[i].session.answers : i \in FrameIds})
    \ {0}

St ==
  [cache |-> cache, age |-> age, heap |-> heap,
   live |-> Live(cache, frames), lapsed |-> lapsed]

\* twin marks the two frames of the double submission under observation;
\* handled counts those of them that handleAnswer has run for.
NoDbl ==
  [on |-> FALSE, userId |-> 0, handled |-> 0,
   appended |-> 0, advanced |-> 0, scored |-> 0]

\* The observation of a double submission after a step of frame i, from the
\* store as it is to store r.st; run: the step ran handleAnswer.
DblStep(i, r, run) ==
  LET u == frames[i].userId
      before == cache[u]
      after == r.st.cache[u]
  IN IF ~dbl.on \/ dbl.handled = 2 THEN NoDbl
     ELSE IF u # dbl.userId THEN dbl
     ELSE IF ~frames[i].twin THEN NoDbl
     ELSE IF frames[i].pc # "cb_ack" THEN dbl
     ELSE IF ~run \/ before = NoSession \/ after = NoSession THEN NoDbl
     ELSE [dbl EXCEPT
             !.handled = @ + 1,
             !.appended = @ + Len(r.st.heap[before.answers])
                            - Len(heap[before.answers]),
             !.advanced = @ + after.currentQuestion - before.currentQuestion,
             !.scored = @ + (IF after.score # before.score THEN 1 ELSE 0)]

\* The observation after an event of userId that is no double submission.
DblEvent(userId) ==
  IF ~dbl.on \/ dbl.handled = 2 \/ userId = dbl.userId THEN NoDbl ELSE dbl

\* The frames in flight, in their order, before the free slots.
Compact(fr) ==
  LET busy == SelectSeq(fr, LAMBDA f : f.pc # "idle")
  IN [k \in FrameIds |-> IF k <= Len(busy) THEN busy[k] ELSE Idle]

(* The next state.  An array id is a name only: the arrays that are still  *)
(* referenced are named 1, 2, ... in the order of their first holder (the  *)
(* users' cached sessions, then the frames), and an array nothing          *)
(* references is dropped.  st: the store after the                          *)
(* step; fr0: the frames; res, d: results and dbl.                         *)
Settle(st, fr0, res, d) ==
  \E c \in {st.cache} : \E h \in {st.heap} :
  \E fr \in {Compact([k \in FrameIds |->
                        IF d.on THEN fr0[k]
                        ELSE [fr0[k] EXCEPT !.twin = FALSE]])} :
  \E refs \in {[k \in 1..(Cardinality(UserIds) + MaxFrames) |->
                  IF k <= Cardinality(UserIds) THEN c[k].answers
                  ELSE fr[k - Cardinality(UserIds)].session.answers]} :
  \E lv \in {Live(c, fr)} :
  \E first \in {[b \in lv |->
                   CHOOSE k \in DOMAIN refs :
                     refs[k] = b /\ \A l \in 1..(k - 1) : refs[l] # b]} :
  \E rank \in {[b \in lv |-> Cardinality({e \in lv : first[e] <= first[b]})]} :
  \E ren \in {[b \in lv \cup {0} |-> IF b = 0 THEN 0 ELSE rank[b]]} :
  \E old \in {[k \in 1..Cardinality(lv) |-> CHOOSE b \in lv : rank[b] = k]} :
     /\ cache' = [u \in UserIds |->
                    IF c[u] = NoSession THEN NoSession
                    ELSE [c[u] EXCEPT !.answers = ren[@]]]
     /\ age' = st.age
     /\ lapsed' = st.lapsed \ {said.userId}
     /\ frames' = [k \in FrameIds |->
                     [fr[k] EXCEPT !.session.answers = ren[@]]]
     /\ heap' = [k \in ArrIds |-> IF k \in DOMAIN old THEN h[old[k]] ELSE <<>>]
     /\ results' = [k \in ArrIds |->
                      IF k \in DOMAIN old THEN res[old[k]] ELSE 0]
     /\ dbl' = d

\* The effect r = [st, f] of a step of frame i becomes the next state.  A
\* handler that issued its last message leaves the frames.
Commit(i, r, res, d) ==
  LET last == r.f.pc \in {"send", "error"}
  IN /\ said' = IF last
                THEN [userId |-> r.f.userId, msg |-> r.f.msg,
                      kind |-> r.f.kind]
                ELSE NoMsg
     /\ Settle(r.st, [frames EXCEPT ![i] = IF last THEN Idle ELSE r.f],
               res, d)
     /\ UNCHANGED <<enabled, active, call, repository>>

IdleSlots == {i \in FrameIds : frames[i].pc = "idle"}
FreeSlot == CHOOSE i \in IdleSlots : \A j \in IdleSlots : i <= j

Init ==
  /\ cache = [u \in UserIds |-> NoSession]
  /\ age = [u \in UserIds |-> 0]
  /\ heap = [a \in ArrIds |-> <<>>]
  /\ frames = [i \in FrameIds |-> Idle]
  /\ fwd = 0
  /\ enabled \in BOOLEAN
  /\ active = {1}
  /\ results = [a \in ArrIds |-> 0]
  /\ dbl = NoDbl
  /\ lapsed = {}
  /\ said = NoMsg
  /\ call = NoCall
  /\ repository = Bank

(* ------------------------------- events ------------------------------- *)

\* /start: the handler runs up to its first await as the event arrives.
CmdStart(u, x) ==
  /\ IdleSlots # {}
  /\ \E r \in {handleStart(St, [Idle EXCEPT !.kind = "start", !.userId = u],
                            x, UsernameOf(u))} :
       Commit(FreeSlot, r, results, DblEvent(u))
  /\ UNCHANGED fwd

\* /restart
CmdRestart(u) ==
  /\ IdleSlots # {}
  /\ \E r \in {handleRestart(St,
                              [Idle EXCEPT !.kind = "restart", !.userId = u],
                              UsernameOf(u))} :
       Commit(FreeSlot, r, results, DblEvent(u))
  /\ UNCHANGED fwd

\* /cancel
CmdCancel(u) ==
  /\ IdleSlots # {}
  /\ \E r \in {handleCancel(St,
                             [Idle EXCEPT !.kind = "cancel", !.userId = u])} :
       Commit(FreeSlot, r, results, DblEvent(u))
  /\ UNCHANGED fwd

\* A press of a "Start Test" button: handleCallback awaits
\* answerCallbackQuery before it routes the event.
CbStartTest(u) ==
  /\ IdleSlots # {}
  /\ Commit(FreeSlot, [st |-> St, f |-> NewFrame("start_test", u, 0, 0)],
            results, DblEvent(u))
  /\ UNCHANGED fwd

\* A press of an answer button answer_<q>_<o>.
CbAnswer(u, q, o) ==
  /\ IdleSlots # {}
  /\ Commit(FreeSlot, [st |-> St, f |-> NewFrame("answer", u, q, o)],
            results, DblEvent(u))
  /\ UNCHANGED fwd

\* Two presses of the button of the current question arrive back to back,
\* while no other handler of the user is in flight.
CbAnswerTwice(u, o1, o2) ==
  LET q == CurrentQuestion(cache[u])
      i == FreeSlot
      j == CHOOSE k \in IdleSlots \ {i} : \A l \in IdleSlots \ {i} : k <= l
  IN /\ Cardinality(IdleSlots) >= 2
     /\ cache[u].state = "in_progress"
     /\ q # NoQuestion
     /\ \A k \in FrameIds : frames[k].userId # u
     /\ Settle(St,
               [frames EXCEPT
                  ![i] = [NewFrame("answer", u, q.id, o1) EXCEPT !.twin = TRUE],
                  ![j] = [NewFrame("answer", u, q.id, o2) EXCEPT !.twin = TRUE]],
               results, [NoDbl EXCEPT !.on = TRUE, !.userId = u])
     /\ said' = NoMsg
     /\ UNCHANGED <<fwd, enabled, active, call, repository>>

(* ------------------------- handlers resuming -------------------------- *)

\* answerCallbackQuery settled for a start_test press: handleStartTest runs.
StartTestRun(i, out, x, questions) ==
  /\ frames[i].pc = "cb_ack" /\ frames[i].kind = "start_test"
  /\ \E r \in {IF out = "ok"
                THEN handleStartTest(St, frames[i], x, questions)
                ELSE [st |-> St, f |-> Caught(frames[i])]} :
       Commit(i, r, results, DblStep(i, r, FALSE))
  /\ UNCHANGED fwd

\* answerCallbackQuery settled for an answer press: handleAnswer runs.
AnswerRun(i, out, x) ==
  /\ frames[i].pc = "cb_ack" /\ frames[i].kind = "answer"
  /\ \E r \in {IF out = "ok" THEN handleAnswer(St, frames[i], x)
           ELSE [st |-> St, f |-> Caught(frames[i])]} :
     /\ Commit(i, r, results, DblStep(i, r, out = "ok"))
     /\ UNCHANGED fwd

\* The instructions message was sent: sendQuestion runs.
InstructionsSent(i, out, x) ==
  /\ frames[i].pc = "st_instructions"
  /\ \E r \in {IF out = "ok" THEN sendQuestion(St, frames[i], x, 0)
           ELSE [st |-> St, f |-> Caught(frames[i])]} :
     /\ Commit(i, r, results, DblStep(i, r, FALSE))
     /\ UNCHANGED fwd

\* The feedback message was sent: the completion check runs.
FeedbackSent(i, out, x) ==
  /\ frames[i].pc = "ans_feedback"
  /\ \E r \in {IF out = "ok" THEN handleAnswerNext(St, frames[i], x)
           ELSE [st |-> St, f |-> Caught(frames[i])]} :
     /\ Commit(i, r, results, DblStep(i, r, FALSE))
     /\ UNCHANGED fwd

\* The completion message was sent: the assessment is computed.
CompletionSent(i, out) ==
  /\ frames[i].pc = "ct_completion"
  /\ \E r \in {IF out = "ok" THEN completeTestAssess(St, frames[i])
           ELSE [st |-> St, f |-> Caught(frames[i])]} :
     /\ Commit(i, r, results, DblStep(i, r, FALSE))
     /\ UNCHANGED fwd

\* forwardResults as completeTest calls it: the call is pending when the
\* service is enabled, and has returned false already when it is not.
forwardResults(pending, on) ==
  IF on THEN Min(pending + 1, MaxFwd) ELSE pending

\* The result message was sent: the result is forwarded, the session cleared.
ResultSent(i, out) ==
  /\ frames[i].pc = "ct_result"
  /\ \E r \in {IF out = "ok" THEN completeTestClear(St, frames[i])
           ELSE [st |-> St, f |-> Caught(frames[i])]} :
     /\ Commit(i, r,
               IF out = "ok"
               THEN [results EXCEPT ![frames[i].session.answers] =
                                      Min(@ + 1, 2)]
               ELSE results,
               DblStep(i, r, FALSE))
     /\ fwd' = IF out = "ok" THEN forwardResults(fwd, enabled) ELSE fwd

\* A faulty completeTest, for comparison: it goes on to line 277 only once
\* the forwarding call of line 254 has settled.
OfferSentAwaited(i, out) ==
  /\ fwd = 0
  /\ frames[i].pc = "ct_offer"
  /\ \E r \in {IF out = "ok" THEN completeTestRearm(St, frames[i])
                ELSE [st |-> St, f |-> Caught(frames[i])]} :
     /\ Commit(i, r, results, DblStep(i, r, FALSE))
     /\ UNCHANGED fwd

\* The restart offer was sent: a ready session is created and completeTest
\* returns; it ends by the exception when the send failed.
OfferSent(i, out) ==
  /\ frames[i].pc = "ct_offer"
  /\ \E r \in {IF out = "ok" THEN completeTestRearm(St, frames[i])
           ELSE [st |-> St, f |-> Caught(frames[i])]} :
     /\ Commit(i, r, results, DblStep(i, r, FALSE))
     /\ UNCHANGED fwd

\* A forwarding call settles, delivered or failed: forwardResults catches
\* the failure and nothing else learns of the outcome.
ForwardSettled(out) ==
  /\ fwd > 0
  /\ fwd' = fwd - 1
  /\ said' = NoMsg
  /\ UNCHANGED <<cache, age, heap, frames, enabled, active, results, dbl,
                 lapsed, call, repository>>

\* Time passes while every handler is suspended.
Tick ==
  LET st == ClockTick(St)
  IN /\ \E u \in UserIds : cache[u] # NoSession
     /\ Settle(st, frames, results,
               IF dbl.on /\ dbl.handled < 2 /\ st.cache[dbl.userId] # NoSession
               THEN dbl ELSE NoDbl)
     /\ said' = NoMsg
     /\ UNCHANGED <<fwd, enabled, active, call, repository>>

Options == 0..MaxOpt

\* The reads of a run of k cache reads before which the clock may tick.  A
\* tick that lets no TTL run out is the same as a Tick before the run.
Crossings(k) ==
  IF \E u \in UserIds : cache[u] # NoSession /\ age[u] + 1 >= TTL
  THEN {x \in ReadPoints : x <= k} ELSE {0}

\* What selectQuestionsForTest may return while the bank read at startup is
\* the one loaded.
Selections == selectQuestionsForTest(Bank, TotalQuestions, NoQuotas)

Next ==
  \/ \E u \in active, x \in Crossings(2) : CmdStart(u, x)
  \/ \E u \in active : CmdRestart(u)
  \/ \E u \in active : CmdCancel(u)
  \/ \E u \in active : CbStartTest(u)
  \/ \E u \in active, q \in BankIds, o \in Options : CbAnswer(u, q, o)
  \/ \E u \in active, o1, o2 \in Options : CbAnswerTwice(u, o1, o2)
  \/ \E i \in FrameIds, out \in Outcomes, x \in Crossings(3),
        questions \in Selections : StartTestRun(i, out, x, questions)
  \/ \E i \in FrameIds, out \in Outcomes, x \in Crossings(2) :
        AnswerRun(i, out, x)
  \/ \E i \in FrameIds, out \in Outcomes, x \in Crossings(3) :
        InstructionsSent(i, out, x)
  \/ \E i \in FrameIds, out \in Outcomes, x \in Crossings(4) :
        FeedbackSent(i, out, x)
  \/ \E i \in FrameIds, out \in Outcomes : CompletionSent(i, out)
  \/ \E i \in FrameIds, out \in Outcomes : ResultSent(i, out)
  \/ \E i \in FrameIds, out \in Outcomes : OfferSent(i, out)
  \/ \E out \in Outcomes : ForwardSettled(out)
  \/ Tick

Spec == Init /\ [][Next]_vars

(* The bot as the completion property takes it: a user who follows the     *)
(* messages.  An event arrives when no handler of the user is in flight:   *)
(* /start, a press of Start Test on a ready session, a press (or a double  *)
(* press) of a button of the question presented.  There is no /restart,    *)
(* no /cancel, no TTL runs out and every transport call succeeds.  A       *)
(* suspended handler is resumed when its transport call settles, which the *)
(* event loop does for every settled call: weak fairness for each frame.   *)
Quiet(u) == \A i \in FrameIds : frames[i].userId # u

LiveStart(u) == Quiet(u) /\ CmdStart(u, 0)

LivePress(u) == Quiet(u) /\ cache[u].state = "ready" /\ CbStartTest(u)

LiveAnswer(u, o) ==
  /\ Quiet(u)
  /\ cache[u].state = "in_progress"
  /\ CurrentQuestion(cache[u]) # NoQuestion
  /\ CbAnswer(u, CurrentQuestion(cache[u]).id, o)

Resume(i) ==
  \/ \E questions \in Selections : StartTestRun(i, "ok", 0, questions)
  \/ AnswerRun(i, "ok", 0)
  \/ InstructionsSent(i, "ok", 0)
  \/ FeedbackSent(i, "ok", 0)
  \/ CompletionSent(i, "ok")
  \/ ResultSent(i, "ok")
  \/ OfferSent(i, "ok")

NextLive ==
  \/ \E u \in active : LiveStart(u)
  \/ \E u \in active : LivePress(u)
  \/ \E u \in active, o \in Options : LiveAnswer(u, o)
  \/ \E u \in active, o1, o2 \in Options : CbAnswerTwice(u, o1, o2)
  \/ \E i \in FrameIds : Resume(i)
  \/ ForwardSettled("ok")

SpecLive ==
  Init /\ [][NextLive]_vars /\ \A i \in FrameIds : WF_vars(Resume(i))

(* Two users at once.  Every transport call succeeds and no TTL runs out:   *)
(* what is left is how the handlers of the two users interleave at their   *)
(* awaits.  One user sends any event at any time; the other follows the     *)
(* messages, or cancels, and sends an event when the one before is dealt   *)
(* with.                                                                   *)
InitPair ==
  /\ cache = [u \in UserIds |-> NoSession]
  /\ age = [u \in UserIds |-> 0]
  /\ heap = [a \in ArrIds |-> <<>>]
  /\ frames = [i \in FrameIds |-> Idle]
  /\ fwd = 0
  /\ enabled = TRUE
  /\ active = UserIds
  /\ results = [a \in ArrIds |-> 0]
  /\ dbl = NoDbl
  /\ lapsed = {}
  /\ said = NoMsg
  /\ call = NoCall
  /\ repository = Bank

\* An event of user u arrives.
Event(u) ==
  \/ CmdStart(u, 0)
  \/ CmdRestart(u)
  \/ CmdCancel(u)
  \/ CbStartTest(u)
  \/ \E q \in BankIds, o \in Options : CbAnswer(u, q, o)

\* The users that follow the messages.
Orderly == {2}

\* An event of a user u who follows the messages.
OrderlyEvent(u) ==
  \/ LiveStart(u)
  \/ LivePress(u)
  \/ \E o \in Options : LiveAnswer(u, o)
  \/ Quiet(u) /\ cache[u] # NoSession /\ CmdCancel(u)

NextPair ==
  \/ \E u \in active \ Orderly : Event(u)
  \/ \E u \in active \cap Orderly : OrderlyEvent(u)
  \/ \E i \in FrameIds : Resume(i)
  \/ ForwardSettled("ok")

SpecPair == InitPair /\ [][NextPair]_vars

(* ----------------------- SessionService, driven ----------------------- *)

(* The session service as any caller may drive it: every method, in any    *)
(* order, while the clock runs.  No handler is in flight; call names the   *)
(* method called last, for which user, and what it returned.               *)

\* Records an answers array may hold.
MaxAnswers == 2
\* Weights checkAnswer may resolve: 1..MaxWeight.
MaxWeight == 2

\* The argument of recordAnswer as handleAnswer builds it (lines 148-153).
AnswerArgs ==
  [questionId : BankIds, selectedOption : Options, isCorrect : BOOLEAN,
   weight : 1..MaxWeight]

Usernames == {UsernameOf(u) : u \in UserIds}

\* What a method that returns the session or null returned.
Returned(session) == IF session = NoSession THEN "null" ELSE "session"

\* The call c left the store st.
Called(st, c) ==
  /\ Settle(st, frames, results, dbl)
  /\ said' = NoMsg
  /\ call' = c
  /\ UNCHANGED <<fwd, enabled, active, repository>>

SvcCreate(u, username) ==
  Called(createSession(St, u, username),
         [op |-> "createSession", userId |-> u, was |-> cache[u].state,
          ret |-> "session"])

SvcGet(u) ==
  Called(St, [op |-> "getSession", userId |-> u,
              ret |-> Returned(getSession(St, u))])

SvcHas(u) ==
  Called(St, [op |-> "hasSession", userId |-> u, ret |-> hasSession(St, u)])

SvcUpdate(u) ==
  Called(updateSession(St, u, [state |-> "in_progress"]),
         [op |-> "updateSession", userId |-> u,
          ret |-> Returned(getSession(St, u))])

SvcSetQuestions(u, questions) ==
  Called(setQuestions(St, u, questions),
         [op |-> "setQuestions", userId |-> u,
          ret |-> Returned(getSession(St, u))])

SvcRecordAnswer(u, answer) ==
  /\ cache[u] # NoSession => Len(heap[cache[u].answers]) < MaxAnswers
  /\ Called(recordAnswer(St, u, answer),
            [op |-> "recordAnswer", userId |-> u, answer |-> answer,
             ret |-> Returned(getSession(St, u))])

SvcIsTestComplete(u) ==
  Called(St, [op |-> "isTestComplete", userId |-> u,
              ret |-> isTestComplete(St, u)])

SvcComplete(u) ==
  Called(completeSession(St, u),
         [op |-> "completeSession", userId |-> u,
          ret |-> Returned(getSession(St, u))])

SvcClear(u) ==
  Called(clearSession(St, u),
         [op |-> "clearSession", userId |-> u, ret |-> hasSession(St, u)])

SvcReset(u, username) ==
  Called(resetSession(St, u, username),
         [op |-> "resetSession", userId |-> u, was |-> cache[u].state,
          ret |-> "session"])

NextStore ==
  \/ \E u \in active, username \in Usernames : SvcCreate(u, username)
  \/ \E u \in active : SvcGet(u)
  \/ \E u \in active : SvcHas(u)
  \/ \E u \in active : SvcUpdate(u)
  \/ \E u \in active, questions \in Selections : SvcSetQuestions(u, questions)
  \/ \E u \in active, answer \in AnswerArgs : SvcRecordAnswer(u, answer)
  \/ \E u \in active : SvcIsTestComplete(u)
  \/ \E u \in active : SvcComplete(u)
  \/ \E u \in active : SvcClear(u)
  \/ \E u \in active, username \in Usernames : SvcReset(u, username)
  \/ Tick

SpecStore == Init /\ [][NextStore]_vars

(* ---------------------- AssessmentService, called --------------------- *)

(* The pure functions of the scoring engine, each applied to an input      *)
(* drawn at the start: call holds the function, its arguments, whether it  *)
(* has been applied, and then what it returned.                            *)

\* Answers a session assessed may hold.
MaxAssessed == 4
\* The largest total of calculatePercentage.
MaxTotal == 40
\* The largest percentage determineLevel is given.
MaxPercent == 100

\* A question of each level: one with a weight of its own, three that take
\* the weight of their level.
AssessBank ==
  << Q(1, 0, "A1", "grammar", 1),
     Q(2, 1, "A2", "vocabulary", 0),
     Q(3, 2, "B1", "grammar", 0),
     Q(4, 3, "B2", "vocabulary", 0) >>

\* The question sets passed to calculateAssessment: the bank, and a part of
\* it that leaves the answers to questions 3 and 4 without a question.
QuestionSets == {AssessBank, SubSeq(AssessBank, 1, 2)}

AssessedAnswers ==
  [questionId : {AssessBank[i].id : i \in 1..Len(AssessBank)},
   selectedOption : {0}, isCorrect : BOOLEAN]

AssessCalls ==
  {[op |-> "calculateAssessment", answers |-> answers,
    questions |-> questions, done |-> FALSE, ret |-> NoAssessment] :
     answers \in UNION {[1..n -> AssessedAnswers] : n \in 0..MaxAssessed},
     questions \in QuestionSets}

PercentCalls ==
  {[op |-> "calculatePercentage", value |-> pair[1], total |-> pair[2],
    done |-> FALSE, ret |-> 0] :
     pair \in {p \in (0..MaxTotal) \X (0..MaxTotal) : p[1] <= p[2]}}

LevelCalls ==
  {[op |-> "determineLevel", percentage |-> percentage, done |-> FALSE,
    ret |-> "none"] : percentage \in 0..MaxPercent}

InitAssess ==
  /\ cache = [u \in UserIds |-> NoSession]
  /\ age = [u \in UserIds |-> 0]
  /\ heap = [a \in ArrIds |-> <<>>]
  /\ frames = [i \in FrameIds |-> Idle]
  /\ fwd = 0
  /\ enabled = TRUE
  /\ active = {}
  /\ results = [a \in ArrIds |-> 0]
  /\ dbl = NoDbl
  /\ lapsed = {}
  /\ said = NoMsg
  /\ repository = Bank
  /\ \/ call \in AssessCalls
     \/ call \in PercentCalls
     \/ call \in LevelCalls

\* The function of call is applied and returns ret.
Applied(ret) ==
  /\ ~call.done
  /\ call' = [call EXCEPT !.done = TRUE, !.ret = ret]
  /\ UNCHANGED <<cache, age, heap, frames, fwd, enabled, active, results,
                 dbl, lapsed, said, repository>>

Assess ==
  /\ call.op = "calculateAssessment"
  /\ Applied(calculateAssessment(call.answers, call.questions))

Percentage ==
  /\ call.op = "calculatePercentage"
  /\ Applied(calculatePercentage(call.value, call.total))

Level ==
  /\ call.op = "determineLevel"
  /\ Applied(determineLevel(call.percentage))

NextAssess == Assess \/ Percentage \/ Level

SpecAssess == InitAssess /\ [][NextAssess]_vars

(* ------------------- AssessmentService, called twice ------------------ *)

(* calculateAssessment called twice on one session and one question set,   *)
(* while the clock runs.  call holds the two arguments as they are now,    *)
(* the clock reading, and what the calls made so far returned.             *)

\* Milliseconds the clock may show: 0..MaxNow.
MaxNow == 2
\* Answers the session assessed twice may hold.
MaxTwice == 2

\* getRecommendation: the text of config.recommendations for the level,
\* named here by its key.
getRecommendation(level) ==
  IF level \in LevelSet THEN level ELSE "keep_practicing"

\* Lines 122-136: the percentage of every entry of a breakdown.
Percentages(stats) ==
  [k \in DOMAIN stats |->
     IF stats[k].total > 0
     THEN RoundPercent(stats[k].correct, stats[k].total)
     ELSE 0]

\* The object calculateAssessment returns (lines 141-154) when the clock
\* shows now: new Date().toISOString() is the reading itself.
calculateAssessmentAt(answers, questions, now) ==
  The({[level |-> a.level,
        percentageScore |-> a.percentageScore,
        totalQuestions |-> a.totalQuestions,
        correctAnswers |-> a.correctAnswers,
        categoryStats |-> a.categoryStats,
        categoryPercentages |-> Percentages(a.categoryStats),
        levelStats |-> a.levelStats,
        levelPercentages |-> Percentages(a.levelStats),
        earnedWeight |-> a.earnedWeight,
        totalWeight |-> a.totalWeight,
        recommendation |-> getRecommendation(a.level),
        completedAt |-> now] :
       a \in {calculateAssessment(answers, questions)}})

TwiceCalls ==
  {[op |-> "calculateAssessment", answers |-> answers,
    questions |-> questions, now |-> 0, returned |-> <<>>,
    given |-> [answers |-> answers, questions |-> questions]] :
     answers \in UNION {[1..n -> AssessedAnswers] : n \in 0..MaxTwice},
     questions \in QuestionSets}

InitTwice ==
  /\ cache = [u \in UserIds |-> NoSession]
  /\ age = [u \in UserIds |-> 0]
  /\ heap = [a \in ArrIds |-> <<>>]
  /\ frames = [i \in FrameIds |-> Idle]
  /\ fwd = 0
  /\ enabled = TRUE
  /\ active = {}
  /\ results = [a \in ArrIds |-> 0]
  /\ dbl = NoDbl
  /\ lapsed = {}
  /\ said = NoMsg
  /\ repository = Bank
  /\ call \in TwiceCalls

\* calculateAssessment is called: it reads session.answers and questions,
\* writes to objects of its own only, and returns a new object.
AssessAgain ==
  /\ Len(call.returned) < 2
  /\ call' = [call EXCEPT
                !.returned = Append(@, calculateAssessmentAt(
                                         call.answers, call.questions,
                                         call.now))]
  /\ UNCHANGED <<cache, age, heap, frames, fwd, enabled, active, results,
                 dbl, lapsed, said, repository>>

\* A millisecond passes.
Millisecond ==
  /\ call.now < MaxNow
  /\ call' = [call EXCEPT !.now = @ + 1]
  /\ UNCHANGED <<cache, age, heap, frames, fwd, enabled, active, results,
                 dbl, lapsed, said, repository>>

NextTwice == AssessAgain \/ Millisecond

SpecTwice == InitTwice /\ [][NextTwice]_vars

(* ----------------------- QuestionService, driven ---------------------- *)

(* The question service as any caller may drive it: a reload from a source *)
(* that may be malformed, the lookups, checkAnswer and the selection, in   *)
(* any order.  call names the method called last, its arguments, what it   *)
(* returned, and in was the questions held when it was called.             *)

\* The largest totalQuestions a selection is asked for.
MaxCount == 8

\* The options of a record whose options field is no array.
NotArray == -1

\* A record of the questions array of a source: the fields of q, the length
\* of the options array, and the required fields the record lacks.
Entry(q, options, missing) ==
  [id |-> q.id, correct |-> q.correct, level |-> q.level,
   category |-> q.category, weight |-> q.weight,
   options |-> options, missing |-> missing]

\* The records of a source whose questions are well-formed.
Source(bank) == [i \in 1..Len(bank) |-> Entry(bank[i], 4, {})]

RequiredFields == <<"id", "text", "options", "correct", "level", "category">>

NoViolation == [field |-> "none", rule |-> "none"]

\* The first check of validateQuestions that question fails (lines 42-67).
Violation(question) ==
  LET lacking == {i \in 1..Len(RequiredFields) :
                    RequiredFields[i] \in question.missing}
  IN IF lacking # {}
     THEN [field |-> RequiredFields[CHOOSE i \in lacking :
                                      \A j \in lacking : i <= j],
           rule |-> "required"]
     ELSE IF question.options = NotArray \/ question.options # 4
     THEN [field |-> "options", rule |-> "four_options"]
     ELSE IF question.correct < 0 \/ question.correct > 3
     THEN [field |-> "correct", rule |-> "index"]
     ELSE IF question.level \notin {"A1", "A2", "B1", "B2"}
     THEN [field |-> "level", rule |-> "level"]
     ELSE IF question.category \notin {"vocabulary", "grammar"}
     THEN [field |-> "category", rule |-> "category"]
     ELSE NoViolation

\* A faulty validateQuestions, for comparison: the first question only is
\* checked.
validateQuestionsFirst(entries) ==
  IF entries = <<>> THEN NoViolation ELSE Violation(Head(entries))

\* validateQuestions: the error thrown at the first question that fails a
\* check, NoViolation when the loop ends.
RECURSIVE validateQuestions(_)
validateQuestions(entries) ==
  IF entries = <<>> THEN NoViolation
  ELSE IF Violation(Head(entries)) # NoViolation
       THEN Violation(Head(entries))
       ELSE validateQuestions(Tail(entries))

\* loadQuestions: this.questions is assigned the parsed array (line 23),
\* then validateQuestions runs on it (line 24); thrown is the error that
\* leaves loadQuestions (line 28).
loadQuestions(source) ==
  [questions |-> source, thrown |-> validateQuestions(source)]

getQuestionsByCategory(bank, category) ==
  SelectSeq(bank, LAMBDA q : q.category = category)

\* Question banks with distinct ids: a question of each level, and a bank
\* with a second question of A1.
BankOfFour == Source(AssessBank)

BankOfFive == Source(AssessBank \o << Q(5, 1, "A1", "vocabulary", 2) >>)

\* Sources a reload may read: the two banks, no questions, and the bank of
\* four with a level outside the enum in its second question and with a
\* correct index outside the options in its last.
ReloadSources ==
  { BankOfFour, BankOfFive, <<>>,
    [BankOfFour EXCEPT ![2].level = "C1"],
    [BankOfFour EXCEPT ![4].correct = 4] }

\* The ids a caller may ask for: those of the banks, and one no bank has.
AskedIds == 1..(Len(BankOfFive) + 1)

\* The config.test.questionsPerLevel a selection may be given.
Quotas(table) == [given |-> TRUE, table |-> table]

QuotaTables ==
  { NoQuotas, Quotas(<<>>), Quotas(<< <<"A1", 1>> >>),
    Quotas(<< <<"A1", 2>>, <<"B1", 2>> >>),
    Quotas(<< <<"A2", 3>>, <<"B2", 0>> >>) }

InitBank ==
  /\ cache = [u \in UserIds |-> NoSession]
  /\ age = [u \in UserIds |-> 0]
  /\ heap = [a \in ArrIds |-> <<>>]
  /\ frames = [i \in FrameIds |-> Idle]
  /\ fwd = 0
  /\ enabled = TRUE
  /\ active = {}
  /\ results = [a \in ArrIds |-> 0]
  /\ dbl = NoDbl
  /\ lapsed = {}
  /\ said = NoMsg
  /\ repository = BankOfFour
  /\ call = NoCall

\* A method of the question service was called and left questions in
\* this.questions.
Asked(questions, c) ==
  /\ repository' = questions
  /\ call' = c
  /\ said' = NoMsg
  /\ UNCHANGED <<cache, age, heap, frames, fwd, enabled, active, results,
                 dbl, lapsed>>

\* reloadQuestions()
Reload(source) ==
  \E r \in {loadQuestions(source)} :
     Asked(r.questions,
           [op |-> "reloadQuestions", source |-> source, was |-> repository,
            thrown |-> r.thrown])

\* checkAnswer(questionId, selectedOption)
CheckAnswer(questionId, selectedOption) ==
  Asked(repository,
        [op |-> "checkAnswer", questionId |-> questionId,
         selectedOption |-> selectedOption, was |-> repository,
         ret |-> checkAnswer(repository, questionId, selectedOption)])

\* A faulty selection, for comparison: the questions drawn are taken out
\* of this.questions.
SelectDrawingOut(totalQuestions, questionsPerLevel) ==
  \E selected \in selectQuestionsForTest(repository, totalQuestions,
                                         questionsPerLevel) :
     Asked(SelectSeq(repository,
                     LAMBDA q : \A i \in 1..Len(selected) : selected[i] # q),
           [op |-> "selectQuestionsForTest",
            totalQuestions |-> totalQuestions,
            questionsPerLevel |-> questionsPerLevel, was |-> repository,
            ret |-> selected])

\* selectQuestionsForTest(config): filter and [...array] make arrays of
\* their own, which are the ones shuffled and sliced.
Select(totalQuestions, questionsPerLevel) ==
  \E selected \in selectQuestionsForTest(repository, totalQuestions,
                                         questionsPerLevel) :
     Asked(repository,
           [op |-> "selectQuestionsForTest",
            totalQuestions |-> totalQuestions,
            questionsPerLevel |-> questionsPerLevel, was |-> repository,
            ret |-> selected])

NextBank ==
  \/ \E source \in ReloadSources : Reload(source)
  \/ \E questionId \in AskedIds, selectedOption \in 0..3 :
        CheckAnswer(questionId, selectedOption)
  \/ \E totalQuestions \in 0..MaxCount, questionsPerLevel \in QuotaTables :
        Select(totalQuestions, questionsPerLevel)

SpecBank == InitBank /\ [][NextBank]_vars

(* ----------------------- QuestionService, called ---------------------- *)

(* A load and a selection, each applied to an input drawn at the start: a  *)
(* source of any shape for the load; for the selection a bank of the size  *)
(* of the test and the values Math.random returns while it runs.           *)

\* Records a source may hold beyond its first.
MaxEntries == 2
\* The questions of the largest bank a test is selected from.
MaxBank == 22
\* Math.random returns a multiple of 1 / RollDen below 1.
RollDen == 4
\* The values of Math.random repeat after RollPeriod calls.
RollPeriod == 2

\* The n-th value of Math.random, times RollDen.
Roll(rolls, n) == rolls[((n - 1) % RollPeriod) + 1]

\* shuffleArray when Math.random returns rolls, used of them taken before:
\* the loop from position p down (positions count from 1), j being
\* Math.floor(Math.random() * (i + 1)).
RECURSIVE RolledLoop(_, _, _, _)
RolledLoop(shuffled, p, rolls, used) ==
  The({IF p < 2 THEN [shuffled |-> s, used |-> used]
       ELSE RolledLoop(Swap(s, p, ((Roll(rolls, used + 1) * p) \div RollDen) + 1),
                       p - 1, rolls, used + 1) :
       s \in {shuffled}})

shuffleArrayRolled(array, rolls, used) ==
  RolledLoop(array, Len(array), rolls, used)

\* The draws per level of selectQuestionsForTest, in the order of table.
RECURSIVE DrawRolled(_, _, _, _)
DrawRolled(bank, table, rolls, used) ==
  IF table = <<>> THEN [selected |-> <<>>, used |-> used]
  ELSE The({The({[selected |-> Slice(r.shuffled, Head(table)[2])
                                 \o rest.selected,
                  used |-> rest.used] :
                 rest \in {DrawRolled(bank, Tail(table), rolls, r.used)}}) :
            r \in {shuffleArrayRolled(
                     getQuestionsByLevel(bank, Head(table)[1]), rolls, used)}})

\* selectQuestionsForTest when Math.random returns rolls.
selectQuestionsRolled(bank, totalQuestions, questionsPerLevel, rolls) ==
  LET perLevel == totalQuestions \div Len(Levels)
      table == IF questionsPerLevel.given
               THEN questionsPerLevel.table
               ELSE [i \in 1..Len(Levels) |-> <<Levels[i], perLevel>>]
  IN The({shuffleArrayRolled(d.selected, rolls, d.used).shuffled :
          d \in {DrawRolled(bank, table, rolls, 0)}})

\* A bank of n questions with the ids 1..n, no id twice, the levels in
\* turn.
BankOf(n) ==
  Source([i \in 1..n |->
            Q(i, i % 4, Levels[(i % 4) + 1],
              IF i % 2 = 0 THEN "grammar" ELSE "vocabulary", 0)])

SelectCalls ==
  {[op |-> "selectQuestionsForTest", totalQuestions |-> 20,
    questionsPerLevel |-> NoQuotas, rolls |-> rolls, was |-> BankOf(n),
    done |-> FALSE, ret |-> <<>>] :
     rolls \in [1..RollPeriod -> 0..(RollDen - 1)], n \in 20..MaxBank}

\* The records of a source: every field right or wrong, present or not,
\* the correct index an integer.
Entries ==
  {Entry(Q(1, correct, level, category, 0), options, missing) :
     correct \in {-1, 0, 3, 4}, level \in {"A1", "B2", "C1"},
     category \in {"vocabulary", "grammar", "spelling"},
     options \in {NotArray, 3, 4, 5},
     missing \in {{}, {"text", "level"}}
                   \cup {{RequiredFields[i]} : i \in 1..Len(RequiredFields)}}

\* A record that is well-formed, and the records that are so but for one
\* field.
OneFieldOff ==
  LET right == Entry(Q(2, 3, "B1", "grammar", 0), 4, {})
  IN {right,
      [right EXCEPT !.missing = {"text"}],
      [right EXCEPT !.options = 5],
      [right EXCEPT !.correct = 4],
      [right EXCEPT !.level = "C1"],
      [right EXCEPT !.category = "spelling"]}

LoadCalls ==
  {[op |-> "loadQuestions", source |-> source, done |-> FALSE,
    thrown |-> NoViolation] :
     source \in {<<>>} \cup {<<entry>> : entry \in Entries}
                \cup {<<entry>> \o rest :
                        entry \in OneFieldOff,
                        rest \in UNION {[1..n -> OneFieldOff] :
                                          n \in 1..MaxEntries}}}

InitCalled ==
  /\ cache = [u \in UserIds |-> NoSession]
  /\ age = [u \in UserIds |-> 0]
  /\ heap = [a \in ArrIds |-> <<>>]
  /\ frames = [i \in FrameIds |-> Idle]
  /\ fwd = 0
  /\ enabled = TRUE
  /\ active = {}
  /\ results = [a \in ArrIds |-> 0]
  /\ dbl = NoDbl
  /\ lapsed = {}
  /\ said = NoMsg
  /\ \/ call \in SelectCalls /\ repository = call.was
     \/ call \in LoadCalls /\ repository = BankOfFour

\* loadQuestions reads the source.
LoadCalled ==
  /\ call.op = "loadQuestions" /\ ~call.done
  /\ \E r \in {loadQuestions(call.source)} :
        Asked(r.questions,
              [call EXCEPT !.done = TRUE, !.thrown = r.thrown])

\* selectQuestionsForTest draws from the questions held.
SelectCalled ==
  /\ call.op = "selectQuestionsForTest" /\ ~call.done
  /\ Asked(repository,
           [call EXCEPT !.done = TRUE,
                        !.ret = selectQuestionsRolled(
                                  repository, call.totalQuestions,
                                  call.questionsPerLevel, call.rolls)])

NextCalled == LoadCalled \/ SelectCalled

SpecCalled == InitCalled /\ [][NextCalled]_vars

(* -------------------- A test while the bank reloads ------------------- *)

(* A user who follows the messages takes the test, every transport call    *)
(* succeeds and no TTL runs out, while the question bank may be reloaded   *)
(* between any two runs of a handler and checkAnswer may be called.  The   *)
(* other user sends /start.                                                *)

\* The bank as loaded at startup, the bank with another correct index in
\* its first question, and the bank without its last question.
QuizSources ==
  { Source(Bank),
    [Source(Bank) EXCEPT ![1].correct = 1],
    SubSeq(Source(Bank), 1, Len(Bank) - 1) }

InitQuiz ==
  /\ cache = [u \in UserIds |-> NoSession]
  /\ age = [u \in UserIds |-> 0]
  /\ heap = [a \in ArrIds |-> <<>>]
  /\ frames = [i \in FrameIds |-> Idle]
  /\ fwd = 0
  /\ enabled = TRUE
  /\ active = UserIds
  /\ results = [a \in ArrIds |-> 0]
  /\ dbl = NoDbl
  /\ lapsed = {}
  /\ said = NoMsg
  /\ call = NoCall
  /\ repository = Source(Bank)

\* A suspended handler resumes; handleStartTest selects from the questions
\* held now.
ResumeQuiz(i) ==
  \/ \E questions \in selectQuestionsForTest(repository, TotalQuestions,
                                             NoQuotas) :
        StartTestRun(i, "ok", 0, questions)
  \/ AnswerRun(i, "ok", 0)
  \/ InstructionsSent(i, "ok", 0)
  \/ FeedbackSent(i, "ok", 0)
  \/ CompletionSent(i, "ok")
  \/ ResultSent(i, "ok")
  \/ OfferSent(i, "ok")

NextQuiz ==
  \/ \E u \in active : LiveStart(u)
  \/ \E u \in active \ Orderly : LivePress(u)
  \/ \E u \in active \ Orderly, o \in Options : LiveAnswer(u, o)
  \/ \E i \in FrameIds : ResumeQuiz(i)
  \/ ForwardSettled("ok")
  \/ \E source \in QuizSources : Reload(source)
  \/ \E questionId \in BankIds, selectedOption \in Options :
        CheckAnswer(questionId, selectedOption)

SpecQuiz == InitQuiz /\ [][NextQuiz]_vars

(* ----------------------- the handlers' promises ----------------------- *)

(* What becomes of the promise an async handler returns.  The listeners    *)
(* that start the handlers (commandHandlers.js:193-197,                    *)
(* callbackHandlers.js:284, monitorBot.js:509-514) drop it, and the        *)
(* program registers no unhandledRejection listener: a promise that        *)
(* rejects is handled by no one.  The last await of every handler is a     *)
(* send, which `said` holds in the step that issues it; here the send      *)
(* settles before the next event is handled (it reads and writes no        *)
(* session), and call holds what became of the handler's promise.  A       *)
(* transport call may fail at every await, the bank may be reloaded        *)
(* between two runs, no TTL runs out, and an event arrives when no handler *)
(* of the user is in flight.                                               *)

\* The sends that no try block encloses: the send of a catch block, the
\* send of handleHelp and the sends of handleUnrecognizedMessage.
Unguarded == {"error_occurred", "help", "select_an_answer", "use_start"}

InitEscape ==
  /\ cache = [u \in UserIds |-> NoSession]
  /\ age = [u \in UserIds |-> 0]
  /\ heap = [a \in ArrIds |-> <<>>]
  /\ frames = [i \in FrameIds |-> Idle]
  /\ fwd = 0
  /\ enabled = TRUE
  /\ active = {1}
  /\ results = [a \in ArrIds |-> 0]
  /\ dbl = NoDbl
  /\ lapsed = {}
  /\ said = NoMsg
  /\ call = NoCall
  /\ repository = Source(Bank)

\* /help: handleHelp awaits its send outside any try block.
CmdHelp(u) ==
  /\ said' = [userId |-> u, msg |-> "help", kind |-> "help"]
  /\ UNCHANGED <<cache, age, heap, frames, fwd, enabled, active, results,
                 dbl, lapsed, call, repository>>

\* A text that is no command: handleUnrecognizedMessage reads the session
\* and awaits one of two sends, outside any try block.
Unrecognized(u) ==
  /\ said' = [userId |-> u,
              msg |-> IF getSession(St, u) # NoSession
                         /\ getSession(St, u).state = "in_progress"
                      THEN "select_an_answer" ELSE "use_start",
              kind |-> "message"]
  /\ UNCHANGED <<cache, age, heap, frames, fwd, enabled, active, results,
                 dbl, lapsed, call, repository>>

\* The last send of a handler settles.  Sent, the handler returns.  Failed
\* inside a try block, the catch block awaits the error message; failed
\* outside one, the handler's promise rejects.
SendSettled(out) ==
  /\ said # NoMsg
  /\ IF out = "failed" /\ said.msg \notin Unguarded
     THEN /\ said' = [userId |-> said.userId, msg |-> "error_occurred",
                      kind |-> "none"]
          /\ call' = NoCall
     ELSE /\ said' = NoMsg
          /\ call' = [op |-> "handler", rejected |-> (out = "failed")]
  /\ UNCHANGED <<cache, age, heap, frames, fwd, enabled, active, results,
                 dbl, lapsed, repository>>

\* The transport call a handler is suspended on settles.
Awaited(i, out) ==
  \/ \E questions \in selectQuestionsForTest(repository, TotalQuestions,
                                             NoQuotas) :
        StartTestRun(i, out, 0, questions)
  \/ AnswerRun(i, out, 0)
  \/ InstructionsSent(i, out, 0)
  \/ FeedbackSent(i, out, 0)
  \/ CompletionSent(i, out)
  \/ ResultSent(i, out)
  \/ OfferSent(i, out)

NextEscape ==
  \/ said = NoMsg /\ \E u \in active : Quiet(u) /\ Event(u)
  \/ said = NoMsg /\ \E u \in active : Quiet(u) /\ CmdHelp(u)
  \/ said = NoMsg /\ \E u \in active : Quiet(u) /\ Unrecognized(u)
  \/ said = NoMsg /\ \E i \in FrameIds, out \in Outcomes : Awaited(i, out)
  \/ said = NoMsg /\ \E out \in Outcomes : ForwardSettled(out)
  \/ said = NoMsg /\ \E source \in QuizSources : Reload(source)
  \/ \E out \in Outcomes : SendSettled(out)

SpecEscape == InitEscape /\ [][NextEscape]_vars

(* ------------------- a test that can be answered right ---------------- *)

(* The users follow the messages and take the test, every transport call   *)
(* succeeds and no TTL runs out.  The bank is one in which the option an   *)
(* answer button carries is the correct one of every question, so that     *)
(* the question without a weight field can be answered right.              *)

\* The bank read at startup, with option 0 correct in its second question.
BankAnswerable == [Bank EXCEPT ![2].correct = 0]

InitScore ==
  /\ cache = [u \in UserIds |-> NoSession]
  /\ age = [u \in UserIds |-> 0]
  /\ heap = [a \in ArrIds |-> <<>>]
  /\ frames = [i \in FrameIds |-> Idle]
  /\ fwd = 0
  /\ enabled = TRUE
  /\ active = UserIds
  /\ results = [a \in ArrIds |-> 0]
  /\ dbl = NoDbl
  /\ lapsed = {}
  /\ said = NoMsg
  /\ call = NoCall
  /\ repository = BankAnswerable

NextScore ==
  \/ \E u \in active : LiveStart(u)
  \/ \E u \in active : LivePress(u)
  \/ \E u \in active, o \in Options : LiveAnswer(u, o)
  \/ \E i \in FrameIds : ResumeQuiz(i)
  \/ ForwardSettled("ok")

SpecScore == InitScore /\ [][NextScore]_vars

(* ----------------------------- properties ----------------------------- *)

\* The frames of userId u that are suspended at pc.
FramesAt(fr, u, pc) ==
  {j \in FrameIds : fr[j].pc = pc /\ fr[j].userId = u}

\* A frame without the observation mark.
Plain(f) == [f EXCEPT !.twin = FALSE]

\* C1: when two presses of the button of the current question of an
\* in_progress session arrive back to back and both are handled, exactly
\* one AnswerRecord was appended, currentQuestion advanced by exactly one
\* and the score was incremented at most once.
DoubleSubmissionOnce ==
  (dbl.on /\ dbl.handled = 2) =>
     (dbl.appended = 1 /\ dbl.advanced = 1 /\ dbl.scored <= 1)

\* Both presses of a double submission were handled: the first was
\* recorded and scored, the second was turned down.
DoubleSubmissionHandled ==
  /\ dbl.on /\ dbl.handled = 2
  /\ dbl.appended = 1 /\ dbl.scored = 1
  /\ said.msg = "invalid_answer" /\ said.kind = "answer"

\* C2: once questions are assigned to a session, no later event changes the
\* sequence; it only disappears with the session (a create or reset leaves
\* an empty sequence, a clear or expiry none).
QuestionsAssignedOnce ==
  [][\A u \in UserIds :
       (cache[u].questions # <<>> /\ cache'[u].questions # <<>>) =>
          cache'[u].questions = cache[u].questions]_vars

\* C3: each completed test yields exactly one result: no answers array is
\* assessed, shown and forwarded by more than one run of completeTest.
OneResultPerCompletedTest ==
  enabled => \A a \in ArrIds : results[a] <= 1

\* C4: an answer event of a user whose session expired mid-quiz finds no
\* session: nothing is appended, no session is created, no assessment is
\* computed or forwarded, and the user is told to start again.
ExpiredAnswerRejected ==
  [][\A i \in FrameIds, x \in ReadPoints :
       (frames[i].userId \in lapsed /\ AnswerRun(i, "ok", x)) =>
          /\ cache' = cache
          /\ heap' = heap
          /\ results' = results
          /\ fwd' = fwd
          /\ {Plain(frames'[j]) : j \in FrameIds} \ {Idle}
               \subseteq {Plain(frames[j]) : j \in FrameIds \ {i}}
          /\ said' = [userId |-> frames[i].userId, msg |-> "session_expired",
                      kind |-> "answer"]]_vars

\* The answer event of a user whose session expired mid-quiz was handled.
ExpiredAnswerTold ==
  \E u \in lapsed :
     /\ cache[u] = NoSession
     /\ said = [userId |-> u, msg |-> "session_expired", kind |-> "answer"]

\* C5: the completed session is discarded: once completeTest has delivered
\* the result the cache holds no session for the user, a session whose
\* result was delivered is never cached again, and when completeTest
\* returns the cache holds a fresh ready session (no questions, no answers,
\* currentQuestion 0, score 0).
CompletedSessionDiscarded ==
  /\ [](\A u \in UserIds :
          cache[u] # NoSession =>
             results[cache[u].answers] = 0)
  /\ [][\A i \in FrameIds :
          /\ ResultSent(i, "ok") => cache'[frames[i].userId] = NoSession
          /\ OfferSent(i, "ok") =>
                LET session == cache'[frames[i].userId]
                IN /\ session.state = "ready"
                   /\ session.questions = <<>>
                   /\ session.currentQuestion = 0
                   /\ session.score = 0
                   /\ heap'[session.answers] = <<>>]_vars

\* completeTest has delivered a result and cleared the session, and is
\* suspended on the restart offer.
ResultDeliveredAndCleared ==
  \E i \in FrameIds :
     /\ frames[i].pc = "ct_offer"
     /\ results[frames[i].session.answers] = 1
     /\ Len(heap[frames[i].session.answers]) > 0
     /\ cache[frames[i].userId] = NoSession

\* C6: within the lifetime of a session its state only moves
\* ready -> in_progress -> completed; a ready session is a new one (only
\* createSession writes that state).
LifecycleOrder ==
  [][\A u \in UserIds :
       LET s == cache[u].state
           t == cache'[u].state
       IN \/ t = s
          \/ t \in {"absent", "ready"}
          \/ s = "ready" /\ t = "in_progress"
          \/ s = "in_progress" /\ t = "completed"]_vars

\* The N-th answer of a test of N >= 1 questions was accepted and its
\* handler is suspended on the feedback message.
LastAnswerAccepted ==
  \E i \in FrameIds :
     /\ frames[i].pc = "ans_feedback"
     /\ cache[frames[i].userId].state = "in_progress"
     /\ cache[frames[i].userId].questions # <<>>
     /\ cache[frames[i].userId].currentQuestion =
          Len(cache[frames[i].userId].questions)

\* completeTest has shown and forwarded the result of a test with questions.
ResultDelivered ==
  \E i \in FrameIds :
     /\ frames[i].pc = "ct_offer"
     /\ frames[i].session.questions # <<>>
     /\ results[frames[i].session.answers] >= 1

\* C7: without cancel, restart, expiry and transport failure, every
\* accepted answer advances currentQuestion by one and appends one record;
\* a session with N >= 1 questions is not completed before its N-th
\* accepted answer; and after the N-th accepted answer the test is
\* completed and its result delivered.
CompletionReached ==
  /\ [](\A u \in UserIds :
          (cache[u].state = "completed" /\ cache[u].questions # <<>>) =>
             /\ cache[u].currentQuestion = Len(cache[u].questions)
             /\ Len(heap[cache[u].answers]) = Len(cache[u].questions))
  /\ [][\A i \in FrameIds :
          (AnswerRun(i, "ok", 0)
             /\ Cardinality(FramesAt(frames', frames[i].userId, "ans_feedback"))
                  > Cardinality(FramesAt(frames, frames[i].userId,
                                         "ans_feedback"))) =>
             /\ cache'[frames[i].userId].currentQuestion =
                  cache[frames[i].userId].currentQuestion + 1
             /\ Len(heap'[cache'[frames[i].userId].answers]) =
                  Len(heap[cache[frames[i].userId].answers]) + 1]_vars
  /\ (LastAnswerAccepted ~> ResultDelivered)

\* A test of N questions was answered to the end and its result delivered.
TestCompleted ==
  \E i \in FrameIds :
     /\ frames[i].pc = "ct_offer"
     /\ frames[i].session.questions # <<>>
     /\ Len(heap[frames[i].session.answers]) =
          Len(frames[i].session.questions)
     /\ results[frames[i].session.answers] = 1

\* C8: forwarding is fire-and-forget: completeTest goes on to clear the
\* session and to re-arm a ready one whether or not a forwarding call is
\* unsettled or the service disabled, and a forwarding call that settles,
\* delivered or failed, changes no session and no handler and sends the
\* user nothing.
ForwardingFireAndForget ==
  /\ [](\A i \in FrameIds :
          /\ frames[i].pc = "ct_result" => ENABLED ResultSent(i, "ok")
          /\ frames[i].pc = "ct_offer" => ENABLED OfferSent(i, "ok"))
  /\ [][/\ \A i \in FrameIds :
            /\ ResultSent(i, "ok") =>
                  /\ cache'[frames[i].userId] = NoSession
                  /\ FramesAt(frames', frames[i].userId, "ct_offer") # {}
            /\ OfferSent(i, "ok") =>
                  cache'[frames[i].userId].state = "ready"
        /\ \A out \in Outcomes :
             ForwardSettled(out) =>
               /\ said' = NoMsg
               /\ UNCHANGED <<cache, age, heap, frames, results>>]_vars

\* completeTest has cleared the session and goes on while the forwarding
\* call is unsettled.
ClearedWhileForwarding ==
  \E i \in FrameIds :
     /\ frames[i].pc = "ct_offer"
     /\ fwd > 0
     /\ cache[frames[i].userId] = NoSession

\* C9: an answer is either recorded into a live session and acknowledged,
\* or rejected as a whole: the handler of an answer event goes on to the
\* feedback message only if the answer was recorded.
AnswerAckedOnlyIfRecorded ==
  [][\A i \in FrameIds, x \in ReadPoints :
       (AnswerRun(i, "ok", x)
          /\ Cardinality(FramesAt(frames', frames[i].userId, "ans_feedback"))
               > Cardinality(FramesAt(frames, frames[i].userId,
                                      "ans_feedback"))) =>
          /\ cache'[frames[i].userId] # NoSession
          /\ cache'[frames[i].userId].currentQuestion =
               cache[frames[i].userId].currentQuestion + 1
          /\ Len(heap'[cache'[frames[i].userId].answers]) =
               Len(heap[cache[frames[i].userId].answers]) + 1]_vars

\* The messages of the runs that read the cache and do not write to it.
ReadOnlyMsgs ==
  {"session_expired", "no_active_test", "invalid_answer", "active_test",
   "question", "results_unavailable"}

\* C10: the inactivity timeout runs from the last write: a cached session
\* is younger than the TTL; a step that writes a session restarts its age;
\* a run that only reads leaves the age running; and time passing ages
\* every session, removes those that reach the TTL, and sends nothing.
InactivityTimeout ==
  /\ [](\A u \in UserIds : age[u] < TTL)
  /\ [][/\ \A u \in UserIds :
            /\ (cache'[u] # NoSession
                   /\ [cache'[u] EXCEPT !.answers = 0]
                        # [cache[u] EXCEPT !.answers = 0]) => age'[u] = 0
            /\ (said'.msg \in ReadOnlyMsgs /\ cache'[u] # NoSession) =>
                  (cache'[u] = cache[u] /\ age'[u] >= age[u])
        /\ Tick =>
              /\ said' = NoMsg
              /\ \A u \in UserIds :
                   IF cache[u] # NoSession /\ age[u] + 1 < TTL
                   THEN cache'[u] = cache[u] /\ age'[u] = age[u] + 1
                   ELSE cache'[u] = NoSession]_vars

\* A session that was written to mid-quiz went without a write for the TTL:
\* it is gone and nothing was sent.
SessionTimedOut ==
  \E u \in lapsed : cache[u] = NoSession /\ said = NoMsg


\* The record that recordAnswer pushes for the argument answer.
Recorded(answer) ==
  [questionId |-> answer.questionId, selectedOption |-> answer.selectedOption,
   isCorrect |-> answer.isCorrect]

\* C11: recordAnswer(userId, answer) returns null and changes nothing when
\* the user has no session (none is created); otherwise it pushes exactly
\* one record onto the end of answers, advances currentQuestion by exactly
\* one, adds the answer's weight to score if and only if the answer is
\* correct, and leaves questions, state and username as they are.
RecordAnswerContract ==
  [][\A u \in UserIds :
       (call'.op = "recordAnswer" /\ SvcRecordAnswer(u, call'.answer)) =>
          IF cache[u] = NoSession
          THEN /\ call'.ret = "null"
               /\ cache' = cache
               /\ heap' = heap
          ELSE /\ call'.ret = "session"
               /\ heap'[cache'[u].answers] =
                     Append(heap[cache[u].answers], Recorded(call'.answer))
               /\ cache'[u].currentQuestion = cache[u].currentQuestion + 1
               /\ cache'[u].score =
                     cache[u].score + (IF call'.answer.isCorrect
                                       THEN call'.answer.weight ELSE 0)
               /\ cache'[u].questions = cache[u].questions
               /\ cache'[u].state = cache[u].state
               /\ cache'[u].username = cache[u].username
               /\ \A v \in UserIds \ {u} : cache'[v] = cache[v]]_vars

\* A wrong answer was recorded after a correct one: two records, the score
\* of the first alone.
SecondAnswerRecorded ==
  /\ call.op = "recordAnswer" /\ call.ret = "session"
  /\ ~call.answer.isCorrect
  /\ cache[call.userId] # NoSession
  /\ cache[call.userId].currentQuestion = 2
  /\ Len(heap[cache[call.userId].answers]) = 2
  /\ cache[call.userId].score > 0

\* C12: completeSession marks the session completed (state, isComplete and
\* the endTime stamp are one update) and does not clear it: the session
\* that getSession returns next has the questions, answers, currentQuestion
\* and score of before the call.
CompleteKeepsSession ==
  [][\A u \in UserIds :
       (call'.op = "completeSession" /\ SvcComplete(u)
          /\ cache[u] # NoSession) =>
          /\ call'.ret = "session"
          /\ cache'[u] # NoSession
          /\ cache'[u].state = "completed"
          /\ cache'[u].isComplete
          /\ cache'[u].questions = cache[u].questions
          /\ heap'[cache'[u].answers] = heap[cache[u].answers]
          /\ cache'[u].currentQuestion = cache[u].currentQuestion
          /\ cache'[u].score = cache[u].score
          /\ cache'[u].username = cache[u].username]_vars

\* A session with questions and answers was completed and is still cached.
CompletedSessionReadable ==
  /\ call.op = "completeSession" /\ call.ret = "session"
  /\ cache[call.userId].state = "completed"
  /\ cache[call.userId].questions # <<>>
  /\ Len(heap[cache[call.userId].answers]) = Len(cache[call.userId].questions)
  /\ cache[call.userId].score > 0

\* C13: isTestComplete(userId) is true if and only if the user has a
\* session whose currentQuestion is at or beyond questions.length, in
\* whatever state the session is; for a user without a session it is false.
IsTestCompleteIffCursorAtEnd ==
  [][\A u \in UserIds :
       (call'.op = "isTestComplete" /\ SvcIsTestComplete(u)) =>
          call'.ret = (/\ cache[u] # NoSession
                       /\ cache[u].currentQuestion >= Len(cache[u].questions))
     ]_vars

\* isTestComplete answered true for a ready session without questions.
ReadySessionComplete ==
  /\ call.op = "isTestComplete" /\ call.ret = TRUE
  /\ cache[call.userId].state = "ready"
  /\ cache[call.userId].questions = <<>>

\* The session of u is a fresh ready session of username.
Fresh(c, h, a, u, username) ==
  /\ c[u] # NoSession
  /\ c[u].state = "ready" /\ ~c[u].isComplete
  /\ c[u].username = username
  /\ c[u].questions = <<>>
  /\ h[c[u].answers] = <<>>
  /\ c[u].currentQuestion = 0
  /\ c[u].score = 0
  /\ a[u] = 0

\* C14: createSession overwrites whatever session the user had, or none,
\* with a fresh ready session (no questions, no answers, currentQuestion 0,
\* score 0); resetSession leaves the store that clearSession followed by
\* createSession leaves.
CreateOverwrites ==
  [][\A u \in UserIds, username \in Usernames :
       /\ (call'.op = "createSession" /\ SvcCreate(u, username)) =>
             /\ Fresh(cache', heap', age', u, username)
             /\ \A v \in UserIds \ {u} : cache'[v] = cache[v]
       /\ (call'.op = "resetSession" /\ SvcReset(u, username)) =>
             \E two \in {createSession(clearSession(St, u), u, username)} :
                /\ Fresh(two.cache, two.heap, two.age, u, username)
                /\ Fresh(cache', heap', age', u, username)
                /\ age' = two.age
                /\ \A v \in UserIds \ {u} :
                      cache'[v] = two.cache[v] /\ cache'[v] = cache[v]]_vars

\* createSession replaced a completed session by a fresh one.
CompletedSessionOverwritten ==
  /\ call.op = "createSession" /\ call.was = "completed"
  /\ Fresh(cache, heap, age, call.userId, cache[call.userId].username)


\* What a handler's first run r leaves for the rest of the program to
\* read: the sessions, their timers and arrays, and the handler's frame
\* with the message it sends.
Seen(r) ==
  [cache |-> r.st.cache, age |-> r.st.age, heap |-> r.st.heap,
   live |-> r.st.live, f |-> r.f]

\* The response of every event of user u on the store st.
Responses(st, u) ==
  [answer |-> [q \in BankIds, o \in Options |->
                 Seen(handleAnswer(st, NewFrame("answer", u, q, o), 0))],
   start_test |-> [questions \in Selections |->
                     Seen(handleStartTest(st, NewFrame("start_test", u, 0, 0),
                                          0, questions))],
   start |-> Seen(handleStart(st, [Idle EXCEPT !.kind = "start",
                                               !.userId = u],
                              0, UsernameOf(u))),
   restart |-> Seen(handleRestart(st, [Idle EXCEPT !.kind = "restart",
                                                   !.userId = u],
                                  UsernameOf(u)))]

\* C15: a session that is absent is absent, whatever removed it.  From a
\* session about to time out, the store in which the timeout removed it
\* and the store in which clearSession (/cancel) removed it before the same
\* tick give every next event of the user - an answer, start_test, /start,
\* /restart - the same response and the same resulting sessions.
AbsenceIsAbsence ==
  \A u \in UserIds :
     (cache[u] # NoSession /\ age[u] = TTL - 1) =>
        /\ getSession(ClockTick(St), u) = NoSession
        /\ getSession(ClockTick(clearSession(St, u)), u) = NoSession
        /\ Responses(ClockTick(St), u)
             = Responses(ClockTick(clearSession(St, u)), u)

\* A press of Start Test by a user whose session timed out mid-quiz was
\* answered as a press without a session is.
ExpiredStartTestTold ==
  \E u \in lapsed :
     /\ cache[u] = NoSession
     /\ said = [userId |-> u, msg |-> "session_expired",
                kind |-> "start_test"]


\* The session of user b as the program reads it: its fields, the content
\* of its answers array and its timer.
SessionOf(c, h, a, b) ==
  [session |-> [c[b] EXCEPT !.answers = 0],
   answers |-> IF c[b] = NoSession THEN <<>> ELSE h[c[b].answers],
   age |-> a[b]]

\* A step of user a: an event of a arrives, or a handler of a resumes.
StepOf(a) ==
  \/ Event(a)
  \/ \E i \in FrameIds : frames[i].userId = a /\ Resume(i)

\* C16: the sessions of different users are independent.  While a handler
\* of one user is suspended at an await, or a forwarding call is pending,
\* an event of another user is taken up and a suspended handler of another
\* user resumes; and no step of user a - whatever it creates, records,
\* completes, clears or resets - changes or removes the session of a
\* different user b.
UsersIndependent ==
  /\ [](\A a \in UserIds : \A b \in UserIds \ {a} :
          (\E i \in FrameIds : frames[i].userId = a) =>
             /\ IdleSlots # {} =>
                   /\ ENABLED CmdStart(b, 0)
                   /\ ENABLED CbStartTest(b)
                   /\ ENABLED CmdCancel(b)
             /\ \A j \in FrameIds :
                   frames[j].userId = b => ENABLED Resume(j))
  /\ [][\A b \in UserIds :
          SessionOf(cache', heap', age', b) # SessionOf(cache, heap, age, b)
             => \A a \in UserIds \ {b} : ~StepOf(a)]_vars

\* A /start of one user was handled, and gave the user a session, while a
\* handler of another user was suspended in completeTest with its
\* forwarding call pending.
OtherUserServed ==
  \E a \in UserIds, b \in UserIds, i \in FrameIds :
     /\ a # b
     /\ frames[i].userId = a /\ frames[i].pc = "ct_offer"
     /\ fwd > 0
     /\ cache[a] = NoSession
     /\ said = [userId |-> b, msg |-> "welcome", kind |-> "start"]
     /\ cache[b].state = "ready"


\* The sum of the resolved weights of the answers whose question is in
\* questions; of the correct ones among them when correctOnly.
RECURSIVE SumOfWeights(_, _, _)
SumOfWeights(answers, questions, correctOnly) ==
  IF answers = <<>> THEN 0
  ELSE (IF /\ \E i \in 1..Len(questions) :
                 questions[i].id = Head(answers).questionId
           /\ correctOnly => Head(answers).isCorrect
        THEN ResolveWeight(FindById(questions, Head(answers).questionId))
        ELSE 0)
       + SumOfWeights(Tail(answers), questions, correctOnly)

\* Answers to the four questions of weights 1, 2, 3, 4: right, wrong, right,
\* right.
ScenarioAnswers ==
  [i \in 1..4 |-> [questionId |-> AssessBank[i].id, selectedOption |-> 0,
                   isCorrect |-> i # 2]]

\* C17: calculateAssessment returns as totalWeight the sum of the resolved
\* weights of the answers whose question is in the question set, and as
\* earnedWeight the sum over the correct ones of them; answers of weights
\* 1, 2, 3, 4 that are right, wrong, right, right give earnedWeight 8,
\* totalWeight 10, percentageScore 80 and level B2.
WeightsAccumulated ==
  (call.op = "calculateAssessment" /\ call.done) =>
     /\ call.ret.totalWeight
          = SumOfWeights(call.answers, call.questions, FALSE)
     /\ call.ret.earnedWeight
          = SumOfWeights(call.answers, call.questions, TRUE)
     /\ (call.answers = ScenarioAnswers /\ call.questions = AssessBank) =>
           /\ call.ret.earnedWeight = 8
           /\ call.ret.totalWeight = 10
           /\ call.ret.percentageScore = 80
           /\ call.ret.level = "B2"

\* The scenario was assessed.
ScenarioAssessed ==
  /\ call.op = "calculateAssessment" /\ call.done
  /\ call.answers = ScenarioAnswers /\ call.questions = AssessBank
  /\ call.ret.earnedWeight = 8 /\ call.ret.totalWeight = 10

\* C18: the percentage is round(100 * value / total), the nearest integer
\* and a half upwards, for every 0 <= value <= total with total > 0, and 0
\* when total is 0.
PercentageIsRounded ==
  (call.op = "calculatePercentage" /\ call.done) =>
     call.ret = IF call.total = 0 THEN 0
                ELSE (200 * call.value + call.total) \div (2 * call.total)

\* C19: determineLevel maps every percentage of 0..100 to one level: up to
\* 25 to A1, 26 to 50 to A2, 51 to 75 to B1, 76 and above to B2.
LevelByInclusiveBounds ==
  (call.op = "determineLevel" /\ call.done) =>
     call.ret = CASE call.percentage <= 25 -> "A1"
                  [] call.percentage \in 26..50 -> "A2"
                  [] call.percentage \in 51..75 -> "B1"
                  [] call.percentage >= 76 -> "B2"

\* The last percentage of a level was mapped to it.
BoundaryMapped ==
  /\ call.op = "determineLevel" /\ call.done
  /\ call.percentage = 50 /\ call.ret = "A2"

\* The answers whose question is in questions.
Matched(answers, questions) ==
  SelectSeq(answers,
            LAMBDA a : \E i \in 1..Len(questions) :
                          questions[i].id = a.questionId)

\* C20: an answer whose questionId is not in the question set is skipped:
\* calculateAssessment returns a result, whose weights, breakdowns,
\* percentage and level are those of the answers that have a question.
UnmatchedAnswersSkipped ==
  (call.op = "calculateAssessment" /\ call.done) =>
     \E kept \in {calculateAssessment(Matched(call.answers, call.questions),
                                      call.questions)} :
        /\ call.ret.totalWeight = kept.totalWeight
        /\ call.ret.earnedWeight = kept.earnedWeight
        /\ call.ret.categoryStats = kept.categoryStats
        /\ call.ret.levelStats = kept.levelStats
        /\ call.ret.percentageScore = kept.percentageScore
        /\ call.ret.level = kept.level

\* A correct answer without a question was assessed with one that has a
\* question.
UnmatchedAnswerAssessed ==
  /\ call.op = "calculateAssessment" /\ call.done
  /\ Len(call.answers) = 2
  /\ Len(Matched(call.answers, call.questions)) = 1
  /\ call.answers[1].questionId = 3 /\ call.answers[1].isCorrect
  /\ call.ret.totalWeight = 2
  /\ call.ret.earnedWeight = 0

\* C21: calculateAssessment called twice on the same session and the same
\* question set returns the same object both times, every field equal, and
\* leaves the session's answers and the question set as they were given.
AssessTwiceIdentical ==
  (call.op = "calculateAssessment" /\ "returned" \in DOMAIN call) =>
     /\ call.answers = call.given.answers
     /\ call.questions = call.given.questions
     /\ Len(call.returned) = 2 => call.returned[1] = call.returned[2]

\* C23: checkAnswer returns as weight the weight field of the question when
\* it has one, and the default of the question's level (A1 1, A2 2, B1 3,
\* B2 4) when it has none, for every question of every level.
CheckAnswerWeightResolved ==
  (call.op = "checkAnswer" /\ call.ret.found) =>
     LET question == getQuestionById(call.was, call.questionId)
     IN call.ret.weight = IF question.weight # 0 THEN question.weight
                          ELSE LevelWeight(question.level)

\* The questions of level in s, counted.
CountOfLevel(s, level) ==
  Cardinality({i \in 1..Len(s) : s[i].level = level})

\* The number of questions the selection call c asks of level.
Requested(c, level) ==
  IF ~c.questionsPerLevel.given THEN c.totalQuestions \div 4
  ELSE LET rows == {i \in 1..Len(c.questionsPerLevel.table) :
                      c.questionsPerLevel.table[i][1] = level}
       IN IF rows = {} THEN 0
          ELSE c.questionsPerLevel.table[CHOOSE i \in rows : TRUE][2]

\* C26: for every totalCount and every quota table, select returns at most
\* totalCount questions, and fewer than totalCount only if the repository
\* has fewer questions of some level than are requested of it.
SelectionWithinTotal ==
  call.op = "selectQuestionsForTest" =>
     /\ Len(call.ret) <= call.totalQuestions
     /\ Len(call.ret) < call.totalQuestions =>
           \E level \in LevelSet :
              CountOfLevel(call.was, level) < Requested(call, level)

\* C27: without quotas select draws min(floor(totalCount / 4), pool size)
\* distinct questions of each of the four levels, the remainder of the
\* division dropped, so 4 * floor(totalCount / 4) questions when the pools
\* are large enough; with quotas it draws min(quota, pool size) distinct
\* questions of each level listed, and none of the others.
SelectionPerLevel ==
  call.op = "selectQuestionsForTest" =>
     /\ \A level \in LevelSet :
           CountOfLevel(call.ret, level) =
              Min(Requested(call, level), CountOfLevel(call.was, level))
     /\ \A i \in 1..Len(call.ret) :
           /\ \E k \in 1..Len(call.was) : call.ret[i] = call.was[k]
           /\ \A j \in 1..Len(call.ret) :
                 call.ret[i].id = call.ret[j].id => i = j
     /\ (/\ ~call.questionsPerLevel.given
         /\ \A level \in LevelSet :
               CountOfLevel(call.was, level) >= call.totalQuestions \div 4)
          => Len(call.ret) = 4 * (call.totalQuestions \div 4)

\* Seven questions were asked of a bank with a question or more of every
\* level: four were drawn, one of each level; and a quota of two was met
\* with the one question the level has.
RemainderDropped ==
  /\ call.op = "selectQuestionsForTest"
  /\ ~call.questionsPerLevel.given /\ call.totalQuestions = 7
  /\ call.was = BankOfFive
  /\ Len(call.ret) = 4

Visible(bank) ==
  [byLevel |-> [level \in LevelSet \cup {"C1"} |->
                  getQuestionsByLevel(bank, level)],
   byCategory |-> [category \in Categories |->
                     getQuestionsByCategory(bank, category)],
   byId |-> [id \in AskedIds |-> getQuestionById(bank, id)],
   checkAnswer |-> [id \in AskedIds, o \in 0..4 |-> checkAnswer(bank, id, o)]]

\* C29: a load is all or nothing: it succeeds with every question of the
\* source loaded, or it fails and the lookups, checkAnswer and the selection
\* show what they showed before it, nothing of the source that failed.
LoadAllOrNothing ==
  call.op = "reloadQuestions" =>
     IF call.thrown = NoViolation
     THEN repository = call.source
     ELSE /\ Visible(repository) = Visible(call.was)
          /\ selectQuestionsForTest(repository, 4, NoQuotas)
               = selectQuestionsForTest(call.was, 4, NoQuotas)

\* C25: a selection of 20 without quotas from a repository with 5 questions
\* or more of each of the four levels returns exactly 20 questions, no id
\* twice, 5 of each level.
SelectionOfTwenty ==
  (/\ call.op = "selectQuestionsForTest" /\ call.done
   /\ call.totalQuestions = 20 /\ ~call.questionsPerLevel.given
   /\ \A level \in LevelSet : CountOfLevel(call.was, level) >= 5) =>
     /\ Len(call.ret) = 20
     /\ \A i, j \in 1..Len(call.ret) :
           call.ret[i].id = call.ret[j].id => i = j
     /\ \A level \in LevelSet : CountOfLevel(call.ret, level) = 5

\* Twenty questions were selected from a bank that has six of two levels,
\* and they are not in the order of the bank.
TwentySelected ==
  /\ call.op = "selectQuestionsForTest" /\ call.done
  /\ call.totalQuestions = 20
  /\ CountOfLevel(call.was, "A2") = 6
  /\ Len(call.ret) = 20
  /\ \E i \in 1..19 : call.ret[i].id > call.ret[i + 1].id

\* The rules a question is held to.
WellFormed(question) ==
  /\ question.missing = {}
  /\ question.options = 4
  /\ question.correct \in 0..3
  /\ question.level \in LevelSet
  /\ question.category \in Categories

IsCorrectFromServedQuestion ==
  /\ \A u \in UserIds :
        cache[u] # NoSession =>
          \A k \in 1..Len(heap[cache[u].answers]) :
             LET answer == heap[cache[u].answers][k]
                 served == FindById(cache[u].questions, answer.questionId)
             IN answer.isCorrect = (answer.selectedOption = served.correct)
  /\ \A i \in FrameIds :
        frames[i].pc = "ct_result" =>
          frames[i].assessment.correctAnswers
            = Cardinality({k \in 1..Len(heap[frames[i].session.answers]) :
                             heap[frames[i].session.answers][k].isCorrect})

\* The handler of frame i, run now, gets as far as checkAnswer and
\* checkAnswer throws: the question presented is not among those held.
CheckAnswerThrows(i) ==
  /\ frames[i].pc = "cb_ack" /\ frames[i].kind = "answer"
  /\ cache[frames[i].userId].state = "in_progress"
  /\ CurrentQuestion(cache[frames[i].userId]) # NoQuestion
  /\ CurrentQuestion(cache[frames[i].userId]).id = frames[i].questionId
  /\ getQuestionById(repository, frames[i].questionId) = NoQuestion

\* C24: checkAnswer on a question id the repository does not have fails
\* with the not-found error and changes no session: every user's questions,
\* answers, cursor, score and state are as before the call, also when the
\* call is made by the handler of an answer event.
CheckAnswerNotFoundMutatesNothing ==
  [][/\ \A questionId \in BankIds, selectedOption \in Options :
          (/\ CheckAnswer(questionId, selectedOption)
           /\ getQuestionById(repository, questionId) = NoQuestion) =>
             /\ ~call'.ret.found
             /\ \A u \in UserIds :
                   SessionOf(cache', heap', age', u)
                     = SessionOf(cache, heap, age, u)
     /\ \A i \in FrameIds :
          (CheckAnswerThrows(i) /\ AnswerRun(i, "ok", 0)) =>
             /\ said'.msg = "error_occurred"
             /\ \A u \in UserIds :
                   SessionOf(cache', heap', age', u)
                     = SessionOf(cache, heap, age, u)]_vars

\* An answer to a question the reloaded bank no longer has ended in the
\* error message, the test still in progress at that question.
AnswerEventNotFound ==
  /\ said.msg = "error_occurred"
  /\ cache[said.userId].state = "in_progress"
  /\ CurrentQuestion(cache[said.userId]) # NoQuestion
  /\ getQuestionById(repository, CurrentQuestion(cache[said.userId]).id)
       = NoQuestion
  /\ cache[2].state = "ready"

\* C31: no error escapes a handler: whichever transport send fails while an
\* event is handled, and when checkAnswer throws, the handler's promise does
\* not reject.
NoRejectionEscapes ==
  call.op = "handler" => ~call.rejected

\* C32: completeTest discards only the session it completed: when the user
\* has started a new test while completeTest of an answered test was
\* suspended on a send, the step that resumes completeTest leaves the new
\* in_progress session cached, with its questions and the answers recorded
\* in it.
CompleteTestSparesNewSession ==
  [][\A i \in FrameIds :
       (/\ frames[i].pc \in {"ct_completion", "ct_result", "ct_offer"}
        /\ frames[i].session.questions # <<>>
        /\ cache[frames[i].userId].state = "in_progress"
        /\ cache[frames[i].userId].answers # frames[i].session.answers
        /\ \/ CompletionSent(i, "ok")
           \/ ResultSent(i, "ok")
           \/ OfferSent(i, "ok"))
       => /\ cache'[frames[i].userId].state = "in_progress"
          /\ cache'[frames[i].userId].questions
               = cache[frames[i].userId].questions
          /\ cache'[frames[i].userId].currentQuestion
               = cache[frames[i].userId].currentQuestion
          /\ heap'[cache'[frames[i].userId].answers]
               = heap[cache[frames[i].userId].answers]]_vars

\* C33: an assessment is computed, shown and forwarded only for a session
\* that was assigned questions and has an answer for every one of them:
\* never for a fresh ready session without answers.
ResultOnlyForAnsweredTest ==
  \A i \in FrameIds :
     frames[i].pc \in {"ct_result", "ct_offer"} =>
        /\ Len(frames[i].session.questions) >= 1
        /\ Len(heap[frames[i].session.answers])
             = Len(frames[i].session.questions)

\* C34: in every session, each recorded answer refers to the question
\* served at its position: answers[k].questionId = questions[k].id for
\* every answer recorded.
AnswersFollowQuestions ==
  \A u \in UserIds :
     cache[u] # NoSession =>
        \A k \in 1..Len(heap[cache[u].answers]) :
           /\ k <= Len(cache[u].questions)
           /\ heap[cache[u].answers][k].questionId = cache[u].questions[k].id

\* C35: the running score agrees with the assessment: the score of a
\* completed session is the earnedWeight of the assessment of its answers
\* against its questions.
ScoreIsEarnedWeight ==
  \A u \in UserIds :
     cache[u].state = "completed" =>
        cache[u].score
          = calculateAssessment(heap[cache[u].answers],
                                cache[u].questions).earnedWeight

\* s is a prefix of t.
IsPrefix(s, t) == Len(s) <= Len(t) /\ SubSeq(t, 1, Len(s)) = s

\* C36: in every session currentQuestion is the number of answers
\* recorded, and the answers are append-only: a call that leaves the user
\* the session they had (any call but createSession and resetSession) leaves
\* the answers recorded before as a prefix of the answers.
CursorCountsAnswers ==
  /\ [](\A u \in UserIds :
          cache[u] # NoSession =>
             cache[u].currentQuestion = Len(heap[cache[u].answers]))
  /\ [][\A u \in UserIds :
          (/\ cache[u] # NoSession
           /\ cache'[u] # NoSession
           /\ ~\E username \in Usernames :
                 SvcCreate(u, username) \/ SvcReset(u, username))
          => IsPrefix(heap[cache[u].answers], heap'[cache'[u].answers])]_vars

\* A session with two answers recorded was completed: the call left both
\* answers where they were.
AnsweredSessionCompleted ==
  \E u \in UserIds :
     /\ call.op = "completeSession" /\ call.userId = u /\ call.ret = "session"
     /\ cache[u].state = "completed"
     /\ cache[u].currentQuestion = 2
     /\ Len(heap[cache[u].answers]) = 2

\* C37: the cursor stays within bounds: 0 <= currentQuestion <=
\* questions.length in every session, and a completed session has
\* currentQuestion >= questions.length.
CursorWithinBounds ==
  \A u \in UserIds :
     cache[u] # NoSession =>
        /\ 0 <= cache[u].currentQuestion
        /\ cache[u].currentQuestion <= Len(cache[u].questions)
        /\ cache[u].state = "completed" =>
              cache[u].currentQuestion >= Len(cache[u].questions)

\* A test with questions was answered to its end and is completed, the
\* cursor on the length of the questions.
CursorAtEndCompleted ==
  \E u \in UserIds :
     /\ cache[u].state = "completed"
     /\ Len(cache[u].questions) >= 1
     /\ cache[u].currentQuestion = Len(cache[u].questions)

\* C38: an answer event is accepted only when the session is in_progress
\* and the button is that of the question at currentQuestion: a run of
\* handleAnswer for any other answer event leaves the answers,
\* currentQuestion, score, questions and state of the session as they were
\* (the session may be gone when its TTL ran out during the run).
AnswerAcceptedOnlyIfCurrent ==
  [][\A i \in FrameIds :
       (/\ frames[i].pc = "cb_ack" /\ frames[i].kind = "answer"
        /\ cache[frames[i].userId] # NoSession
        /\ ~(/\ cache[frames[i].userId].state = "in_progress"
             /\ cache[frames[i].userId].currentQuestion
                  < Len(cache[frames[i].userId].questions)
             /\ cache[frames[i].userId].questions[
                  cache[frames[i].userId].currentQuestion + 1].id
                  = frames[i].questionId)
        /\ \E out \in Outcomes, x \in Crossings(2) : AnswerRun(i, out, x))
       => \/ cache'[frames[i].userId] = NoSession
          \/ /\ heap'[cache'[frames[i].userId].answers]
                  = heap[cache[frames[i].userId].answers]
             /\ cache'[frames[i].userId].currentQuestion
                  = cache[frames[i].userId].currentQuestion
             /\ cache'[frames[i].userId].score = cache[frames[i].userId].score
             /\ cache'[frames[i].userId].questions
                  = cache[frames[i].userId].questions
             /\ cache'[frames[i].userId].state
                  = cache[frames[i].userId].state]_vars

\* The button of a question already answered was pressed while the test
\* was in progress, and was turned down.
StaleButtonTurnedDown ==
  \E u \in UserIds :
     /\ said = [userId |-> u, msg |-> "invalid_answer", kind |-> "answer"]
     /\ cache[u].state = "in_progress"
     /\ cache[u].currentQuestion = 1
     /\ Len(heap[cache[u].answers]) = 1

\* C39: a /start handled while the session is in_progress leaves the
\* session as it is, its questions, answers, currentQuestion, score and
\* state (the session may be gone when its TTL ran out during the run):
\* /start creates a session only when the user has none or has a ready or
\* completed one.
StartKeepsTestInProgress ==
  [][\A u \in UserIds :
       cache[u].state = "in_progress" =>
       \A x \in Crossings(2) :
       (/\ Adv(St, x = 1).cache[u].state = "in_progress"
        /\ CmdStart(u, x))
       => \/ cache'[u] = NoSession
          \/ /\ cache'[u].state = "in_progress"
             /\ cache'[u].questions = cache[u].questions
             /\ cache'[u].currentQuestion = cache[u].currentQuestion
             /\ cache'[u].score = cache[u].score
             /\ heap'[cache'[u].answers] = heap[cache[u].answers]]_vars

\* /start was sent in the middle of a test and answered by the notice of
\* a test in progress; the session has its answer still.
StartTurnedDownMidTest ==
  \E u \in UserIds :
     /\ said = [userId |-> u, msg |-> "active_test", kind |-> "start"]
     /\ cache[u].state = "in_progress"
     /\ cache[u].currentQuestion = 1
     /\ Len(heap[cache[u].answers]) = 1

\* C40: the headline counts of an assessment agree with its breakdowns:
\* totalQuestions is the sum of the totals by category and the sum of the
\* totals by level, and correctAnswers is the sum of the correct counts by
\* category and by level.
HeadlineAgreesWithBreakdowns ==
  (call.op = "calculateAssessment" /\ call.done) =>
     LET cat == call.ret.categoryStats
         lev == call.ret.levelStats
     IN /\ call.ret.totalQuestions
             = cat["vocabulary"].total + cat["grammar"].total
        /\ call.ret.totalQuestions
             = lev["A1"].total + lev["A2"].total
               + lev["B1"].total + lev["B2"].total
        /\ call.ret.correctAnswers
             = cat["vocabulary"].correct + cat["grammar"].correct
        /\ call.ret.correctAnswers
             = lev["A1"].correct + lev["A2"].correct
               + lev["B1"].correct + lev["B2"].correct

=============================================================================
